---- MODULE Spec2Model ----
(***************************************************************************)
(* Model of the resume text pipeline of talentsift-backend:                *)
(*   cleanExtractedText  (candidate.utils.ts, lines 3-112)                 *)
(*   extractTextFromPDFs (candidate.utils.ts, lines 114-168)               *)
(* A text is a sequence of one-character strings.                          *)
(***************************************************************************)
EXTENDS Integers, Sequences, FiniteSets, TLC

VARIABLES
    \* ---- one call of cleanExtractedText ----
    text,            \* the argument of the call
    cleaned,         \* the local variable `cleaned`
    lines,           \* the local constant `lines`
    processedLines,  \* the local array `processedLines`
    i,               \* the loop index of the merge loop (0-based, as in the code)
    cpc,             \* position in cleanExtractedText
    repairIn,        \* history: the text the last post-processing started from
    \* ---- calls of extractTextFromPDFs (one per run) ----
    runs,            \* the calls that are modelled side by side
    buffers,         \* run -> the argument `buffers`
    idx,             \* run -> number of loop iterations completed
    extractedTexts,  \* run -> the local array `extractedTexts`
    outcomes,        \* history: run -> the extractor's outcome for each document seen
    calls,           \* history: run -> number of extractor invocations per document
    opc,             \* run -> "loop", "returned" or "rejected"
    \* ---- the authentication service and its database ----
    now,             \* the clock, in milliseconds
    users,           \* the users table: id -> row
    issued,          \* the access tokens signed so far
    stale,           \* history: tokens signed before a password change of their user
    lastAuth,        \* history: the last request authenticate has handled
    \* ---- the router of the authentication endpoints ----
    nodeEnv,         \* process.env.NODE_ENV
    hits,            \* limiter -> IP -> requests counted in the current window
    delivered,       \* history: route -> IP -> requests that reached the controller
    requests,        \* number of requests routed so far
    \* ---- one request to uploadResumes ----
    files,           \* req.files
    response,        \* the response (status 0: none yet)
    \* ---- what the authentication endpoints have answered ----
    lastRefresh,     \* history: the last request refreshAccessToken has handled
    forgotReplies,   \* history: the answers forgotPassword has given
    \* ---- calls of resetPassword that run side by side ----
    resets,          \* call -> its position, its arguments and its answer
    \* ---- the jobs table and the job service ----
    jobs,            \* the jobs table: id -> row
    lastJob          \* history: the last call of updateJob or deleteJob

cleanVars == <<text, cleaned, lines, processedLines, i, cpc,
               repairIn>>
batchVars == <<runs, buffers, idx, extractedTexts, outcomes, calls, opc>>
authVars == <<now, users, issued, stale, lastAuth>>
routeVars == <<nodeEnv, hits, delivered, requests>>
uploadVars == <<files, response>>
replyVars == <<lastRefresh, forgotReplies>>
resetVars == <<resets>>
jobVars == <<jobs, lastJob>>
laterVars == <<resetVars, jobVars>>
moreVars == <<uploadVars, replyVars, laterVars>>
vars == <<cleanVars, batchVars, authVars, routeVars, moreVars>>

\* no request other than those of the authentication endpoints is handled
IdleUpload ==
    /\ files = <<>>
    /\ response = <<>>
IdleReplies ==
    /\ lastRefresh = <<>>
    /\ forgotReplies = {}
IdleResets == resets = <<>>
IdleJobs ==
    /\ jobs = <<>>
    /\ lastJob = <<>>
IdleLater == IdleResets /\ IdleJobs
IdleMore == IdleUpload /\ IdleReplies /\ IdleLater

\* the server handles no request
IdleServer ==
    /\ now = 0
    /\ users = <<>>
    /\ issued = {}
    /\ stale = {}
    /\ lastAuth = <<>>
    /\ nodeEnv = ""
    /\ hits = <<>>
    /\ delivered = <<>>
    /\ requests = 0
    /\ IdleMore
unchangedServer == UNCHANGED <<authVars, routeVars, moreVars>>

(***************************************************************************)
(* Character classes of the regular expressions.                           *)
(***************************************************************************)
Upper == {"A","B","C","D","E","F","G","H","I","J","K","L","M",
          "N","O","P","Q","R","S","T","U","V","W","X","Y","Z"}
Lower == {"a","b","c","d","e","f","g","h","i","j","k","l","m",
          "n","o","p","q","r","s","t","u","v","w","x","y","z"}
Digit == {"0","1","2","3","4","5","6","7","8","9"}

\* \s, and the characters String.prototype.trim removes (restricted to the
\* whitespace that the model's alphabet has)
IsSpace(c) == c \in {" ", "\n", "\t", "\r", "\f"}
\* \w
IsWord(c) == c \in Upper \cup Lower \cup Digit \cup {"_"}
\* [.,;:!?]
IsPunct(c) == c \in {".", ",", ";", ":", "!", "?"}
\* [\x00-\x08\x0B-\x0C\x0E-\x1F\x7F]: the form feed (which is whitespace too)
\* and U+0001 (which is not) stand for the class
IsControl(c) == c \in {"\f", "U+0001"}
\* A character outside ASCII is written as its code point:
\*   U+25CF black circle, U+2022 bullet, U+25AA/U+25AB small squares,
\*   U+25E6 white bullet, U+2023 triangular bullet, U+2043 hyphen bullet,
\*   U+2013 en dash.
\* the bullet glyphs of the detection pattern (line 36)
BulletGlyphs == {"U+25CF", "U+2022", "U+25AA", "U+25AB", "U+25E6", "U+2023", "U+2043"}
\* the bullet glyphs of the normalisation pattern (line 106)
BulletVariants == {"U+2022", "U+25AA", "U+25AB", "U+25E6", "U+2023", "U+2043"}
\* [\u2013-] of the date-range pattern (line 47)
IsDash(c) == c \in {"U+2013", "-"}

(***************************************************************************)
(* Helpers on texts.  The operators walk a text match by match, never      *)
(* character by character, so that their depth is the number of matches.   *)
(***************************************************************************)
SetMin(S) == CHOOSE x \in S : \A y \in S : x <= y
SetMax(S) == CHOOSE x \in S : \A y \in S : y <= x

\* the first position >= p whose character is not in the class (Len(s)+1 when none)
SkipWhile(s, p, InClass(_)) ==
    LET stops == {q \in p..Len(s) : ~InClass(s[q])}
    IN  IF stops # {} THEN SetMin(stops)
        ELSE IF p > Len(s) THEN p ELSE Len(s) + 1

IsDigit(c) == c \in Digit
IsLower(c) == c \in Lower
IsNonSpace(c) == ~IsSpace(c)
IsBlank(c) == c = " "
IsNewline(c) == c = "\n"

SkipSpaces(s, p) == SkipWhile(s, p, IsSpace)
SkipDigits(s, p) == SkipWhile(s, p, IsDigit)
SkipNonSpaces(s, p) == SkipWhile(s, p, IsNonSpace)

\* s.startsWith(w, p - 1)
HasAt(s, p, w) == p + Len(w) - 1 <= Len(s) /\ SubSeq(s, p, p + Len(w) - 1) = w

\* String.prototype.replace(/re/g, ..) for a pattern that matches no empty
\* text: MatchEnd(s, q) is the position after the match that starts at q (0 if
\* the pattern does not match there), Replacement(s, q) what the match becomes.
\* Matches are taken from left to right and do not overlap.
ReplaceAll(s, MatchEnd(_, _), Replacement(_, _)) ==
    LET rest[p \in 1..(Len(s) + 1)] ==
            LET starts == {q \in p..Len(s) : MatchEnd(s, q) > 0}
            IN  IF starts = {} THEN SubSeq(s, p, Len(s))
                ELSE LET q == SetMin(starts)
                     IN  SubSeq(s, p, q - 1) \o Replacement(s, q) \o rest[MatchEnd(s, q)]
    IN  rest[1]

\* String.prototype.trim
Trim(s) ==
    LET keep == {q \in 1..Len(s) : ~IsSpace(s[q])}
    IN  IF keep = {} THEN <<>> ELSE SubSeq(s, SetMin(keep), SetMax(keep))

\* Array.prototype.join
RECURSIVE Join(_, _)
Join(ls, sep) ==
    IF ls = <<>> THEN <<>>
    ELSE IF Len(ls) = 1 THEN ls[1]
    ELSE ls[1] \o sep \o Join(Tail(ls), sep)

\* String.prototype.split('\n')
RECURSIVE SplitFrom(_, _)
SplitFrom(s, p) ==
    LET q == SkipWhile(s, p, LAMBDA c : c # "\n")
    IN  IF q > Len(s) THEN <<SubSeq(s, p, Len(s))>>
        ELSE <<SubSeq(s, p, q - 1)>> \o SplitFrom(s, q + 1)
SplitLines(s) == SplitFrom(s, 1)

(***************************************************************************)
(* 1. Initial artifact cleaning and normalisation (lines 9-19).            *)
(***************************************************************************)
\* /--\s*\d+\s+of\s+\d+\s*--/ tried at position p: the position after the match, 0 if none
PageSeparatorEnd(s, p) ==
    IF ~HasAt(s, p, <<"-", "-">>) THEN 0
    ELSE LET d1 == SkipSpaces(s, p + 2)
             e1 == SkipDigits(s, d1)
             o  == SkipSpaces(s, e1)
             d2 == SkipSpaces(s, o + 2)
             e2 == SkipDigits(s, d2)
             t  == SkipSpaces(s, e2)
         IN  IF /\ e1 > d1
                /\ o > e1
                /\ HasAt(s, o, <<"o", "f">>)
                /\ d2 > o + 2
                /\ e2 > d2
                /\ HasAt(s, t, <<"-", "-">>)
             THEN t + 2
             ELSE 0
Nothing(s, p) == <<>>

\* .replace(/--\s*\d+\s+of\s+\d+\s*--/g, '')
RemovePageSeparators(s) == ReplaceAll(s, PageSeparatorEnd, Nothing)

\* a variant of line 13 that removes nothing
KeepControls(s) == s
\* .replace(/[\x00-\x08\x0B-\x0C\x0E-\x1F\x7F]/g, '')
RemoveControls(s) == SelectSeq(s, LAMBDA c : ~IsControl(c))

\* /\r\n|\r/ tried at position p
LineBreakEnd(s, p) ==
    IF HasAt(s, p, <<"\r", "\n">>) THEN p + 2
    ELSE IF s[p] = "\r" THEN p + 1
    ELSE 0
OneNewline(s, p) == <<"\n">>

\* .replace(/\r\n|\r/g, '\n')
NormalizeLineBreaks(s) == ReplaceAll(s, LineBreakEnd, OneNewline)

\* .replace(/\t/g, ' ')
TabsToSpaces(s) == [k \in 1..Len(s) |-> IF s[k] = "\t" THEN " " ELSE s[k]]

\* /[ ]{2,}/ tried at position p
BlankRunEnd(s, p) ==
    IF HasAt(s, p, <<" ", " ">>) THEN SkipWhile(s, p, IsBlank) ELSE 0
OneBlank(s, p) == <<" ">>

\* .replace(/[ ]{2,}/g, ' ')
CollapseSpaces(s) == ReplaceAll(s, BlankRunEnd, OneBlank)

\* a variant of lines 9-19 that replaces the tabs after the runs of spaces
\* have been collapsed
NormalizeArtifactsTabsLast(s) ==
    TabsToSpaces(CollapseSpaces(NormalizeLineBreaks(
        RemoveControls(RemovePageSeparators(s)))))

\* lines 9-19
NormalizeArtifacts(s) ==
    CollapseSpaces(TabsToSpaces(NormalizeLineBreaks(
        RemoveControls(RemovePageSeparators(s)))))

(***************************************************************************)
(* 2. Line splitting (lines 23-26) and line detection (lines 36-63).       *)
(***************************************************************************)
\* a variant of line 26 that keeps the empty lines
KeepEmptyLines(ls) == ls
\* .filter((l) => l.length > 0)  (line 26)
SelectNonEmpty(ls) == SelectSeq(ls, LAMBDA l : Len(l) > 0)
TrimmedLines(s) ==
    LET parts == SplitLines(s)
    IN  SelectNonEmpty([k \in 1..Len(parts) |-> Trim(parts[k])])

CapsHeaderMax == 35
CapsHeaderLengthLimit == 40
ColonHeaderLengthLimit == 50
FirstLinesCount == 2

\* /^[<the seven bullet glyphs>]/
IsBulletPoint(l) == l # <<>> /\ l[1] \in BulletGlyphs

\* a variant of line 41 that keeps the test of the length only
IsHeaderCapsLengthOnly(l) ==
    /\ \A k \in 1..Len(l) : l[k] \in Upper \/ IsSpace(l[k]) \/ l[k] = "&"
    /\ Len(l) >= 2
    /\ Len(l) < CapsHeaderLengthLimit

\* /^[A-Z\s&]{2,35}$/.test(l) && l.length < 40
IsHeaderCaps(l) ==
    /\ \A k \in 1..Len(l) : l[k] \in Upper \/ IsSpace(l[k]) \/ l[k] = "&"
    /\ Len(l) >= 2
    /\ Len(l) <= CapsHeaderMax
    /\ Len(l) < CapsHeaderLengthLimit

\* /:\s*$/.test(l) && l.length < 50
IsHeaderColon(l) ==
    /\ Trim(l) # <<>>
    /\ Trim(l)[Len(Trim(l))] = ":"
    /\ Len(l) < ColonHeaderLengthLimit

SkipLower(s, p) == SkipWhile(s, p, IsLower)

\* /^[A-Z][a-z]+\s+\d{4}\s*[<en dash>-]/
IsDateRange(l) ==
    /\ Len(l) >= 1
    /\ l[1] \in Upper
    /\ LET a == SkipLower(l, 2)
           b == SkipSpaces(l, a)
           c == SkipSpaces(l, b + 4)
       IN  /\ a > 2
           /\ b > a
           /\ b + 3 <= Len(l)
           /\ \A k \in b..(b + 3) : l[k] \in Digit
           /\ c <= Len(l)
           /\ IsDash(l[c])

\* [A-Za-z\s&]
IsNameChar(c) == c \in Upper \cup Lower \/ IsSpace(c) \/ c = "&"
SkipNameChars(s, p) == SkipWhile(s, p, IsNameChar)

\* [^)]
IsNotClose(c) == c # ")"
FindClose(s, p) == SkipWhile(s, p, IsNotClose)

\* /^[A-Z][A-Za-z\s&]+\([^)]+\)\s+/
IsCompanyLocation(l) ==
    /\ Len(l) >= 1
    /\ l[1] \in Upper
    /\ LET a == SkipNameChars(l, 2)
           c == FindClose(l, a + 1)
       IN  /\ a > 2
           /\ a <= Len(l)
           /\ l[a] = "("
           /\ c > a + 1
           /\ c < Len(l)
           /\ IsSpace(l[c + 1])

\* isFirstLines = i < 2  (k is the 0-based index of the line)
IsFirstLines(k) == k < FirstLinesCount

\* a variant of lines 57-63 without the rule of the first lines
IsNewSectionAnywhere(l, k) ==
    \/ IsBulletPoint(l)
    \/ IsHeaderCaps(l)
    \/ IsHeaderColon(l)
    \/ IsDateRange(l)
    \/ IsCompanyLocation(l)

IsNewSection(l, k) ==
    \/ IsBulletPoint(l)
    \/ IsHeaderCaps(l)
    \/ IsHeaderColon(l)
    \/ IsDateRange(l)
    \/ IsCompanyLocation(l)
    \/ IsFirstLines(k)

\* prevLine.endsWith(':')
EndsWithColon(l) == l # <<>> /\ l[Len(l)] = ":"

\* a variant of lines 72-78 without the test of the previous line's colon
ShouldMergeIgnoringColon(l, k, done) ==
    LET prevLine == IF done = <<>> THEN <<>> ELSE done[Len(done)]
    IN  /\ ~IsNewSection(l, k)
        /\ Len(prevLine) > 0
        /\ ~IsBulletPoint(l)
        /\ Len(done) > 0

\* shouldMerge && processedLines.length > 0  (lines 72-78)
ShouldMerge(l, k, done) ==
    LET prevLine == IF done = <<>> THEN <<>> ELSE done[Len(done)]
    IN  /\ ~IsNewSection(l, k)
        /\ Len(prevLine) > 0
        /\ ~IsBulletPoint(l)
        /\ ~EndsWithColon(prevLine)
        /\ Len(done) > 0

\* one iteration of the loop body (lines 78-84)
MergeLine(l, k, done) ==
    IF ShouldMerge(l, k, done)
    THEN [done EXCEPT ![Len(done)] = done[Len(done)] \o <<" ">> \o l]
    ELSE Append(done, l)

\* the whole loop (lines 29-85)
RECURSIVE ReconstructFrom(_, _, _)
ReconstructFrom(ls, k, done) ==
    IF k >= Len(ls) THEN done
    ELSE ReconstructFrom(ls, k + 1, MergeLine(ls[k + 1], k, done))
ReconstructLines(ls) == ReconstructFrom(ls, 0, <<>>)

(***************************************************************************)
(* 3. Post-processing and formatting (lines 88-111).                       *)
(***************************************************************************)
\* /\s+([.,;:!?])/ tried at position p
SpaceBeforePunctEnd(s, p) ==
    LET q == SkipSpaces(s, p)
    IN  IF q > p /\ q <= Len(s) /\ IsPunct(s[q]) THEN q + 1 ELSE 0
ThePunct(s, p) == <<s[SkipSpaces(s, p)]>>

\* .replace(/\s+([.,;:!?])/g, '$1')
DropSpaceBeforePunct(s) == ReplaceAll(s, SpaceBeforePunctEnd, ThePunct)

\* /([.,;:!?])\s*([.,;:!?])/ tried at position p
PunctPairEnd(s, p) ==
    LET q == SkipSpaces(s, p + 1)
    IN  IF IsPunct(s[p]) /\ q <= Len(s) /\ IsPunct(s[q]) THEN q + 1 ELSE 0
SpacedPunctPair(s, p) == <<s[p], " ", s[SkipSpaces(s, p + 1)]>>

\* .replace(/([.,;:!?])\s*([.,;:!?])/g, '$1 $2')
SpacePunctPairs(s) == ReplaceAll(s, PunctPairEnd, SpacedPunctPair)

\* /\s*\|\s*/ tried at position p
PipeEnd(s, p) ==
    LET q == SkipSpaces(s, p)
    IN  IF q <= Len(s) /\ s[q] = "|" THEN SkipSpaces(s, q + 1) ELSE 0
SpacedPipe(s, p) == <<" ", "|", " ">>

\* .replace(/\s*\|\s*/g, ' | ')
SpacePipes(s) == ReplaceAll(s, PipeEnd, SpacedPipe)

\* /(\w)\s*-\s*(\w)/ tried at position p
WordHyphenEnd(s, p) ==
    LET h == SkipSpaces(s, p + 1)
        q == SkipSpaces(s, h + 1)
    IN  IF /\ IsWord(s[p])
           /\ h <= Len(s) /\ s[h] = "-"
           /\ q <= Len(s) /\ IsWord(s[q])
        THEN q + 1 ELSE 0
TightHyphen(s, p) == <<s[p], "-", s[WordHyphenEnd(s, p) - 1]>>

\* .replace(/(\w)\s*-\s*(\w)/g, '$1-$2')
TightenHyphens(s) == ReplaceAll(s, WordHyphenEnd, TightHyphen)

YearDigits == 4
\* \d{4} at position p
IsYearAt(s, p) ==
    /\ p + YearDigits - 1 <= Len(s)
    /\ \A k \in p..(p + YearDigits - 1) : s[k] \in Digit

\* /(\d{4})\s*-\s*(\d{4})/ tried at position p
YearRangeEnd(s, p) ==
    LET h == SkipSpaces(s, p + YearDigits)
        q == SkipSpaces(s, h + 1)
    IN  IF /\ IsYearAt(s, p)
           /\ h <= Len(s) /\ s[h] = "-"
           /\ IsYearAt(s, q)
        THEN q + YearDigits ELSE 0
SpacedYearRange(s, p) ==
    LET e == YearRangeEnd(s, p)
    IN  SubSeq(s, p, p + YearDigits - 1) \o <<" ", "-", " ">>
            \o SubSeq(s, e - YearDigits, e - 1)

\* .replace(/(\d{4})\s*-\s*(\d{4})/g, '$1 - $2')
SpaceYearRanges(s) == ReplaceAll(s, YearRangeEnd, SpacedYearRange)

\* /(\S+)\s*@\s*(\S+)/ tried at position p: (\S+) takes the whole run of
\* non-whitespace and gives characters back from the right until an "@" and
\* a second group can follow.  The ends m of the first group that lead to a
\* match; the regex engine takes the largest.
EmailFirstGroupEnds(s, p) ==
    LET e == SkipNonSpaces(s, p) - 1
    IN  {m \in p..e :
            LET a == IF m = e THEN SkipSpaces(s, m + 1) ELSE m + 1
            IN  /\ a <= Len(s)
                /\ s[a] = "@"
                /\ SkipSpaces(s, a + 1) <= Len(s)}
\* the position of the "@" of the match at p
EmailAt(s, p) ==
    LET m == SetMax(EmailFirstGroupEnds(s, p))
    IN  IF m = SkipNonSpaces(s, p) - 1 THEN SkipSpaces(s, m + 1) ELSE m + 1
EmailEnd(s, p) ==
    IF EmailFirstGroupEnds(s, p) = {} THEN 0
    ELSE SkipNonSpaces(s, SkipSpaces(s, EmailAt(s, p) + 1))
JoinedEmail(s, p) ==
    LET m == SetMax(EmailFirstGroupEnds(s, p))
        g == SkipSpaces(s, EmailAt(s, p) + 1)
    IN  SubSeq(s, p, m) \o <<"@">> \o SubSeq(s, g, EmailEnd(s, p) - 1)

\* .replace(/(\S+)\s*@\s*(\S+)/g, '$1@$2')
RestoreEmails(s) == ReplaceAll(s, EmailEnd, JoinedEmail)

\* .replace(/[<the six bullet variants>]/g, '<black circle>')
NormalizeBullets(s) ==
    [k \in 1..Len(s) |-> IF s[k] \in BulletVariants THEN "U+25CF" ELSE s[k]]

\* /\n{3,}/ tried at position p
NewlineRunEnd(s, p) ==
    IF HasAt(s, p, <<"\n", "\n", "\n">>) THEN SkipWhile(s, p, IsNewline) ELSE 0
TwoNewlines(s, p) == <<"\n", "\n">>

\* .replace(/\n{3,}/g, '\n\n')
CollapseNewlines(s) == ReplaceAll(s, NewlineRunEnd, TwoNewlines)

\* lines 91-93
FixPunctuation(s) == SpacePunctPairs(DropSpaceBeforePunct(s))
\* line 96
FixPipes(s) == SpacePipes(s)
\* lines 99-100
FixDashes(s) == SpaceYearRanges(TightenHyphens(s))
\* line 103
FixEmails(s) == RestoreEmails(s)

\* lines 91-111, applied to the joined text
PostProcess(s) ==
    Trim(CollapseNewlines(NormalizeBullets(
        FixEmails(FixDashes(FixPipes(FixPunctuation(s)))))))

\* a call with null or undefined instead of a string
NullText == <<"null">>
UndefinedText == <<"undefined">>

\* if (!text || typeof text !== 'string') return ''  (line 4)
IsNoText(t) == t \in {NullText, UndefinedText} \/ t = <<>>

\* cleanExtractedText as a function (lines 3-112)
CleanExtractedText(t) ==
    IF IsNoText(t) THEN <<>>
    ELSE PostProcess(Join(ReconstructLines(TrimmedLines(NormalizeArtifacts(t))), <<"\n">>))

(***************************************************************************)
(* The extractor and the flattening of its result (lines 131-154).         *)
(***************************************************************************)
\* texts the extractor returns in the model
DocJohn == <<"J","o","h","n","\n","D","e","v","\n","B","u","i","l","t"," ",
             "a","p","i","s","\n","t","h","a","t"," ","s","c","a","l","e",".">>
DocSkills == <<"S","K","I","L","L","S","\r","\n","U+2022"," ","G","o"," ",",","S","Q","L">>
PageOne == <<"p","1"," ","@"," ","x",".","i","o">>
PageTwo == <<"2","0","2","0","-","2","0","2","3">>
BlankPage == <<" ", "\n">>

\* a page is <<text>>, or <<>> for a null entry of the pages array
SomePages == <<<<PageOne>>, <<>>, <<BlankPage>>, <<PageTwo>>>>

\* what one `new PDFParse(..)` / `getText()` pair does for a document
Outcome(kind, hasText, t, hasPages, ps) ==
    [kind |-> kind, hasText |-> hasText, text |-> t, hasPages |-> hasPages, pages |-> ps]
NoCall == Outcome("notInvoked", FALSE, <<>>, FALSE, <<>>)
Outcomes ==
    { Outcome("constructorThrows", FALSE, <<>>, FALSE, <<>>),
      Outcome("getTextRejects", FALSE, <<>>, FALSE, <<>>),
      Outcome("nullish", FALSE, <<>>, FALSE, <<>>),
      Outcome("string", FALSE, DocJohn, FALSE, <<>>),
      Outcome("object", TRUE, DocSkills, FALSE, <<>>),
      Outcome("object", TRUE, DocJohn, TRUE, SomePages),
      Outcome("object", FALSE, <<>>, TRUE, SomePages),
      Outcome("object", FALSE, <<>>, TRUE, <<>>) }
PairOutcomes ==
    { Outcome("getTextRejects", FALSE, <<>>, FALSE, <<>>),
      Outcome("string", FALSE, DocJohn, FALSE, <<>>),
      Outcome("object", FALSE, <<>>, TRUE, SomePages) }

Throws(o) == o.kind \in {"constructorThrows", "getTextRejects"}

\* page?.text || ''
PageText(pg) == IF pg = <<>> THEN <<>> ELSE pg[1]

\* result.pages.map(..).filter((text) => text?.trim()?.length > 0).join('\n\n')
FlattenPages(ps) ==
    Join(SelectSeq([k \in 1..Len(ps) |-> PageText(ps[k])],
                   LAMBDA t : Len(Trim(t)) > 0),
         <<"\n", "\n">>)

\* a variant of lines 134-154 that flattens the pages of every result that has
\* a pages array, also when the result has a text property
PlainTextPagesFirst(o) ==
    IF o.kind = "string" THEN o.text
    ELSE IF o.kind = "object"
    THEN IF o.hasPages /\ Len(o.pages) > 0 THEN FlattenPages(o.pages)
         ELSE IF o.hasText THEN o.text
         ELSE <<>>
    ELSE <<>>

\* lines 134-154: the plain text of a result
PlainTextOf(o) ==
    IF o.kind = "string" THEN o.text
    ELSE IF o.kind = "object"
    THEN IF o.hasText THEN o.text
         ELSE IF o.hasPages /\ Len(o.pages) > 0 THEN FlattenPages(o.pages)
         ELSE <<>>
    ELSE <<>>


\* lines 134-157: what the try block pushes for a result, computed once for
\* each result the extractor has in the model
CleanedResult == [o \in Outcomes |-> CleanExtractedText(PlainTextOf(o))]

(***************************************************************************)
(* extractTextFromPDFs (lines 114-168), one loop iteration per action.     *)
(***************************************************************************)
MaxDocs == 3
MaxPairDocs == 2

Payloads == {"null", "undefined", "pdf"}
\* the argument when it is no array (line 119)
NotAnArray == <<"not an array">>

RECURSIVE SeqsUpTo(_, _)
SeqsUpTo(S, n) ==
    IF n = 0 THEN {<<>>}
    ELSE LET shorter == SeqsUpTo(S, n - 1)
         IN  shorter \cup {Append(q, x) : q \in {t \in shorter : Len(t) = n - 1}, x \in S}

\* a variant of the test of line 125 that overlooks undefined (buffer === null)
IsNullPayload(b) == b = "null"

\* if (!buffer)  (line 125)
IsAbsentPayload(b) == b \in {"null", "undefined"}

\* the outcomes the extractor can have in this specification
OutcomeMenu == IF Cardinality(runs) = 1 THEN Outcomes ELSE PairOutcomes

unchangedClean == UNCHANGED cleanVars /\ unchangedServer

\* lines 119-121
ReturnNotArray(r) ==
    /\ opc[r] = "loop"
    /\ buffers[r] = NotAnArray
    /\ opc' = [opc EXCEPT ![r] = "returned"]
    /\ UNCHANGED <<runs, buffers, idx, extractedTexts, outcomes, calls>>
    /\ unchangedClean

\* a variant of lines 125-128 that skips an absent document without a push
SkipAbsentNoPush(r) ==
    /\ opc[r] = "loop"
    /\ buffers[r] # NotAnArray
    /\ idx[r] < Len(buffers[r])
    /\ IsAbsentPayload(buffers[r][idx[r] + 1])
    /\ outcomes' = [outcomes EXCEPT ![r] = Append(@, NoCall)]
    /\ calls' = [calls EXCEPT ![r] = Append(@, 0)]
    /\ idx' = [idx EXCEPT ![r] = @ + 1]
    /\ UNCHANGED <<runs, buffers, opc, extractedTexts>>
    /\ unchangedClean

\* lines 125-128
SkipAbsent(r) ==
    /\ opc[r] = "loop"
    /\ buffers[r] # NotAnArray
    /\ idx[r] < Len(buffers[r])
    /\ IsAbsentPayload(buffers[r][idx[r] + 1])
    /\ extractedTexts' = [extractedTexts EXCEPT ![r] = Append(@, <<>>)]
    /\ outcomes' = [outcomes EXCEPT ![r] = Append(@, NoCall)]
    /\ calls' = [calls EXCEPT ![r] = Append(@, 0)]
    /\ idx' = [idx EXCEPT ![r] = @ + 1]
    /\ UNCHANGED <<runs, buffers, opc>>
    /\ unchangedClean

\* lines 130-159: the try block runs to its end
ExtractText(r) ==
    /\ opc[r] = "loop"
    /\ buffers[r] # NotAnArray
    /\ idx[r] < Len(buffers[r])
    /\ ~IsAbsentPayload(buffers[r][idx[r] + 1])
    /\ \E o \in OutcomeMenu :
          /\ ~Throws(o)
          /\ extractedTexts' =
                [extractedTexts EXCEPT ![r] = Append(@, CleanedResult[o])]
          /\ outcomes' = [outcomes EXCEPT ![r] = Append(@, o)]
    /\ calls' = [calls EXCEPT ![r] = Append(@, 1)]
    /\ idx' = [idx EXCEPT ![r] = @ + 1]
    /\ UNCHANGED <<runs, buffers, opc>>
    /\ unchangedClean

\* a variant of lines 130-164 without the try/catch: the failure leaves the function
ExtractFailsUncaught(r) ==
    /\ opc[r] = "loop"
    /\ buffers[r] # NotAnArray
    /\ idx[r] < Len(buffers[r])
    /\ ~IsAbsentPayload(buffers[r][idx[r] + 1])
    /\ \E o \in OutcomeMenu :
          /\ Throws(o)
          /\ outcomes' = [outcomes EXCEPT ![r] = Append(@, o)]
    /\ calls' = [calls EXCEPT ![r] = Append(@, 1)]
    /\ opc' = [opc EXCEPT ![r] = "rejected"]
    /\ UNCHANGED <<runs, buffers, idx, extractedTexts>>
    /\ unchangedClean

\* a variant of lines 160-164 whose catch block pushes nothing
ExtractFailsNoPush(r) ==
    /\ opc[r] = "loop"
    /\ buffers[r] # NotAnArray
    /\ idx[r] < Len(buffers[r])
    /\ ~IsAbsentPayload(buffers[r][idx[r] + 1])
    /\ \E o \in OutcomeMenu :
          /\ Throws(o)
          /\ outcomes' = [outcomes EXCEPT ![r] = Append(@, o)]
    /\ calls' = [calls EXCEPT ![r] = Append(@, 1)]
    /\ idx' = [idx EXCEPT ![r] = @ + 1]
    /\ UNCHANGED <<runs, buffers, opc, extractedTexts>>
    /\ unchangedClean

\* lines 130-132 and 160-164: the constructor or getText fails, the catch block runs
ExtractFails(r) ==
    /\ opc[r] = "loop"
    /\ buffers[r] # NotAnArray
    /\ idx[r] < Len(buffers[r])
    /\ ~IsAbsentPayload(buffers[r][idx[r] + 1])
    /\ \E o \in OutcomeMenu :
          /\ Throws(o)
          /\ outcomes' = [outcomes EXCEPT ![r] = Append(@, o)]
    /\ extractedTexts' = [extractedTexts EXCEPT ![r] = Append(@, <<>>)]
    /\ calls' = [calls EXCEPT ![r] = Append(@, 1)]
    /\ idx' = [idx EXCEPT ![r] = @ + 1]
    /\ UNCHANGED <<runs, buffers, opc>>
    /\ unchangedClean

\* line 167
ReturnTexts(r) ==
    /\ opc[r] = "loop"
    /\ buffers[r] # NotAnArray
    /\ idx[r] = Len(buffers[r])
    /\ opc' = [opc EXCEPT ![r] = "returned"]
    /\ UNCHANGED <<runs, buffers, idx, extractedTexts, outcomes, calls>>
    /\ unchangedClean

\* no call of cleanExtractedText is in progress
IdleClean ==
    /\ text = <<>>
    /\ cleaned = <<>>
    /\ lines = <<>>
    /\ processedLines = <<>>
    /\ i = 0
    /\ cpc = "idle"
    /\ repairIn = <<>>

InitBatch(rs, n) ==
    /\ runs = rs
    /\ buffers \in [rs -> SeqsUpTo(Payloads, n) \cup {NotAnArray}]
    /\ idx = [r \in rs |-> 0]
    /\ extractedTexts = [r \in rs |-> <<>>]
    /\ outcomes = [r \in rs |-> <<>>]
    /\ calls = [r \in rs |-> <<>>]
    /\ opc = [r \in rs |-> "loop"]

Init == InitBatch({1}, MaxDocs) /\ IdleClean /\ IdleServer

Next ==
    \/ \E r \in runs : ReturnNotArray(r)
    \/ \E r \in runs : SkipAbsent(r)
    \/ \E r \in runs : ExtractText(r)
    \/ \E r \in runs : ExtractFails(r)
    \/ \E r \in runs : ReturnTexts(r)

Spec == Init /\ [][Next]_vars

(***************************************************************************)
(* extractTextFromPDFs with the suspension at `await parser.getText()`     *)
(* (line 132) as a step of its own: a call that is in flight is the last   *)
(* entry of `calls`, before the result of its document is pushed.          *)
(***************************************************************************)
\* the number of extractor calls whose result has not been pushed
InFlight(r) == Len(calls[r]) - idx[r]

\* a variant of lines 123-132 that does not wait for the call before it
\* (the calls of a Promise.all over the documents)
CallGetTextUnawaited(r) ==
    /\ opc[r] = "loop"
    /\ buffers[r] # NotAnArray
    /\ Len(calls[r]) < Len(buffers[r])
    /\ ~IsAbsentPayload(buffers[r][Len(calls[r]) + 1])
    /\ calls' = [calls EXCEPT ![r] = Append(@, 1)]
    /\ UNCHANGED <<runs, buffers, idx, extractedTexts, outcomes, opc>>
    /\ unchangedClean

\* lines 123-132: the next document is present, the parser is made and
\* getText is called; the function is suspended at the await
CallGetText(r) ==
    /\ opc[r] = "loop"
    /\ buffers[r] # NotAnArray
    /\ idx[r] < Len(buffers[r])
    /\ InFlight(r) = 0
    /\ ~IsAbsentPayload(buffers[r][idx[r] + 1])
    /\ calls' = [calls EXCEPT ![r] = Append(@, 1)]
    /\ UNCHANGED <<runs, buffers, idx, extractedTexts, outcomes, opc>>
    /\ unchangedClean

\* lines 132-159: the promise of getText is fulfilled, the text is cleaned
\* and pushed
GetTextResolves(r) ==
    /\ opc[r] = "loop"
    /\ InFlight(r) > 0
    /\ \E o \in OutcomeMenu :
          /\ ~Throws(o)
          /\ extractedTexts' =
                [extractedTexts EXCEPT ![r] = Append(@, CleanedResult[o])]
          /\ outcomes' = [outcomes EXCEPT ![r] = Append(@, o)]
    /\ idx' = [idx EXCEPT ![r] = @ + 1]
    /\ UNCHANGED <<runs, buffers, calls, opc>>
    /\ unchangedClean

\* lines 132 and 160-164: the promise of getText is rejected, the catch block
\* pushes the empty string
GetTextRejects(r) ==
    /\ opc[r] = "loop"
    /\ InFlight(r) > 0
    /\ outcomes' = [outcomes EXCEPT ![r] =
                        Append(@, Outcome("getTextRejects", FALSE, <<>>, FALSE, <<>>))]
    /\ extractedTexts' = [extractedTexts EXCEPT ![r] = Append(@, <<>>)]
    /\ idx' = [idx EXCEPT ![r] = @ + 1]
    /\ UNCHANGED <<runs, buffers, calls, opc>>
    /\ unchangedClean

\* lines 131 and 160-164: `new PDFParse(..)` throws, no call of getText is
\* made and the catch block pushes the empty string
ConstructorThrows(r) ==
    /\ opc[r] = "loop"
    /\ buffers[r] # NotAnArray
    /\ idx[r] < Len(buffers[r])
    /\ InFlight(r) = 0
    /\ ~IsAbsentPayload(buffers[r][idx[r] + 1])
    /\ outcomes' = [outcomes EXCEPT ![r] =
                        Append(@, Outcome("constructorThrows", FALSE, <<>>, FALSE, <<>>))]
    /\ extractedTexts' = [extractedTexts EXCEPT ![r] = Append(@, <<>>)]
    /\ calls' = [calls EXCEPT ![r] = Append(@, 1)]
    /\ idx' = [idx EXCEPT ![r] = @ + 1]
    /\ UNCHANGED <<runs, buffers, opc>>
    /\ unchangedClean

NextAwait ==
    \/ \E r \in runs : ReturnNotArray(r)
    \/ \E r \in runs : SkipAbsent(r)
    \/ \E r \in runs : CallGetText(r)
    \/ \E r \in runs : GetTextResolves(r)
    \/ \E r \in runs : GetTextRejects(r)
    \/ \E r \in runs : ConstructorThrows(r)
    \/ \E r \in runs : ReturnTexts(r)

SpecAwait == Init /\ [][NextAwait]_vars

\* two calls side by side, to compare what they return
InitPair == InitBatch({1, 2}, MaxPairDocs) /\ IdleClean /\ IdleServer
SpecPair == InitPair /\ [][Next]_vars

(***************************************************************************)
(* cleanExtractedText (lines 3-112) step by step.                          *)
(***************************************************************************)
MaxLines == 3
MaxTokens == 4

\* raw lines a document is made of (before any cleaning)
LineBody1 == <<"B","u","i","l","t"," ","s","y","s","t","e","m","s">>
LineBody2 == <<"t","h","a","t"," "," ","s","c","a","l","e",".">>
LineColon == <<"L","a","n","g","u","a","g","e","s",":">>
LineBullet == <<" ","U+2022"," ","G","o","\r">>
LineCaps == <<"S","K","I","L","L","S">>
LinePipe == <<"a","p","i"," ","|">>
LineBlank == <<"\t">>
LineDate == <<"M","a","y"," ","2","0","2","0","-","2","0","2","1">>
LineCompany == <<"A","c","m","e"," ","(","N","Y",")"," ","d","e","v">>
\* 50 characters, the last one a colon: too long for a colon header
LineLongColon == [k \in 1..ColonHeaderLengthLimit |->
                    IF k = ColonHeaderLengthLimit THEN ":"
                    ELSE IF k % 6 = 0 THEN " " ELSE "w"]
\* n characters out of capitals, spaces and an ampersand
CapsLine(n) == [k \in 1..n |-> IF k % 8 = 0 THEN " " ELSE IF k = 4 THEN "&" ELSE "A"]
LineSamples == {LineBody1, LineBody2, LineColon, LineBullet, LineCaps, LinePipe,
                LineBlank, LineDate, LineCompany, LineLongColon,
                CapsLine(CapsHeaderMax - 1), CapsLine(CapsHeaderMax),
                CapsLine(CapsHeaderMax + 1)}

\* the example documents of the specification
DocPreamble == Join(<<<<"J","o","h","n"," ","D","o","e">>,
                      <<"S","e","n","i","o","r"," ","E","n","g","i","n","e","e","r">>,
                      <<"B","u","i","l","t"," ","s","y","s","t","e","m","s">>,
                      <<"t","h","a","t"," ","s","c","a","l","e",".">>>>, <<"\n">>)
DocLanguages == Join(<<LineColon, <<"P","y","t","h","o","n",","," ","R","u","s","t">>>>,
                     <<"\n">>)
LinePython == <<"P","y","t","h","o","n",","," ","R","u","s","t">>
DocMergedColon == Join(<<LineBody1, LineBody2, LineLongColon, LinePython>>, <<"\n">>)
CuratedDocs == {DocPreamble, DocLanguages, DocMergedColon, NullText, UndefinedText}

\* a document is up to MaxLines raw lines: any two lines at its end, and
\* before them lines that are merged or pushed in every way there is
LeadSamples == {LineBody1, LineColon, LineBlank}
CleanInputs ==
    {Join(lead \o ls, <<"\n">>) :
        lead \in SeqsUpTo(LeadSamples, MaxLines - 2), ls \in SeqsUpTo(LineSamples, 2)}
    \cup CuratedDocs

unchangedBatch == UNCHANGED batchVars /\ unchangedServer

\* line 4
ReturnEmptyText ==
    /\ cpc = "start"
    /\ IsNoText(text)
    /\ cleaned' = <<>>
    /\ cpc' = "done"
    /\ UNCHANGED <<text, lines, processedLines, i, repairIn>>
    /\ unchangedBatch

\* lines 6-19
NormalizeText ==
    /\ cpc = "start"
    /\ ~IsNoText(text)
    /\ cleaned' = NormalizeArtifacts(text)
    /\ cpc' = "split"
    /\ UNCHANGED <<text, lines, processedLines, i, repairIn>>
    /\ unchangedBatch

\* lines 23-27
SplitText ==
    /\ cpc = "split"
    /\ lines' = TrimmedLines(cleaned)
    /\ processedLines' = <<>>
    /\ i' = 0
    /\ cpc' = "loop"
    /\ UNCHANGED <<text, cleaned, repairIn>>
    /\ unchangedBatch

\* lines 29-80: an iteration that appends the line to the previous logical line
MergeIntoPrevious ==
    /\ cpc = "loop"
    /\ i < Len(lines)
    /\ ShouldMerge(lines[i + 1], i, processedLines)
    /\ processedLines' = MergeLine(lines[i + 1], i, processedLines)
    /\ i' = i + 1
    /\ UNCHANGED <<text, cleaned, lines, cpc, repairIn>>
    /\ unchangedBatch

\* lines 29-84: an iteration that pushes the line as a new logical line
PushNewLine ==
    /\ cpc = "loop"
    /\ i < Len(lines)
    /\ ~ShouldMerge(lines[i + 1], i, processedLines)
    /\ processedLines' = MergeLine(lines[i + 1], i, processedLines)
    /\ i' = i + 1
    /\ UNCHANGED <<text, cleaned, lines, cpc, repairIn>>
    /\ unchangedBatch

\* line 88
JoinLines ==
    /\ cpc = "loop"
    /\ i = Len(lines)
    /\ cleaned' = Join(processedLines, <<"\n">>)
    /\ cpc' = "post"
    /\ UNCHANGED <<text, lines, processedLines, i, repairIn>>
    /\ unchangedBatch

\* lines 91-111
FormatText ==
    /\ cpc = "post"
    /\ repairIn' = cleaned
    /\ cleaned' = PostProcess(cleaned)
    /\ cpc' = "done"
    /\ UNCHANGED <<text, lines, processedLines, i>>
    /\ unchangedBatch

\* lines 91-111 applied to their own result
FormatAgain ==
    /\ cpc = "done"
    /\ repairIn' = cleaned
    /\ cleaned' = PostProcess(cleaned)
    /\ cpc' = "again"
    /\ UNCHANGED <<text, lines, processedLines, i>>
    /\ unchangedBatch

\* no call of extractTextFromPDFs is in progress
IdleBatch ==
    /\ runs = {}
    /\ buffers = <<>>
    /\ idx = <<>>
    /\ extractedTexts = <<>>
    /\ outcomes = <<>>
    /\ calls = <<>>
    /\ opc = <<>>

InitClean ==
    /\ text \in CleanInputs
    /\ cleaned = <<>>
    /\ lines = <<>>
    /\ processedLines = <<>>
    /\ i = 0
    /\ cpc = "start"
    /\ repairIn = <<>>
    /\ IdleBatch
    /\ IdleServer

NextClean ==
    \/ ReturnEmptyText
    \/ NormalizeText
    \/ SplitText
    \/ MergeIntoPrevious
    \/ PushNewLine
    \/ JoinLines
    \/ FormatText

SpecClean == InitClean /\ [][NextClean]_vars

\* the pieces the texts handed to the post-processing are made of
RepairTokens == {<<"a","b">>, <<"c">>, <<" ">>, <<"@">>, <<"-">>, <<"2","0","2","0">>,
                 <<"|">>, <<",">>, <<"\n">>}
RECURSIVE Concat(_)
Concat(ts) == IF ts = <<>> THEN <<>> ELSE ts[1] \o Concat(Tail(ts))

TextEmail == <<"t","e","s","t"," ","@"," ","e","x","a","m","p","l","e",".","c","o","m">>
TextEmailChain == <<"a"," ","@"," ","b"," ","@"," ","c">>
TextYears == <<"2","0","2","0","-","2","0","2","3">>
TextYearChain == <<"2","0","2","0","-","2","0","2","1","-","2","0","2","2">>
TextFullTime == <<"f","u","l","l","-","t","i","m","e">>
TextHyphenChain == <<"a"," ","-"," ","b"," ","-"," ","c">>
TextWordComma == <<"w","o","r","d"," ",",","w","o","r","d">>
CuratedTexts == {TextEmail, TextEmailChain, TextYears, TextYearChain, TextFullTime,
                 TextHyphenChain, TextWordComma}

RepairInputs ==
    {Concat(ts) : ts \in SeqsUpTo(RepairTokens, MaxTokens)} \cup CuratedTexts

\* the post-processing alone, on any text
InitRepair ==
    /\ text = <<>>
    /\ cleaned \in RepairInputs
    /\ lines = <<>>
    /\ processedLines = <<>>
    /\ i = 0
    /\ cpc = "post"
    /\ repairIn = <<>>
    /\ IdleBatch
    /\ IdleServer

NextRepair ==
    \/ FormatText
    \/ FormatAgain

SpecRepair == InitRepair /\ [][NextRepair]_vars

\* the pieces the raw texts handed to the artifact cleaning are made of: the
\* two halves of the separator "-- 1 of 2 --", a control character, the line
\* breaks, the blanks and a letter
MaxPieces == 4
SepHead == <<"-","-"," ","1"," ">>
SepTail == <<"o","f"," ","2"," ","-","-">>
ArtifactPieces == {SepHead, SepTail, <<"U+0001">>, <<"\r">>, <<"\t">>, <<" ">>,
                   <<"\n">>, <<"x">>}
TextFormFeed == <<"\f"," ","-","-","1","\f","o","f","\t","2","-","-","\r","\n">>
ArtifactInputs ==
    {Concat(ts) : ts \in SeqsUpTo(ArtifactPieces, MaxPieces)}
    \cup {TextFormFeed} \cup CuratedDocs

\* cleanExtractedText on raw texts with artifacts
InitArtifacts ==
    /\ text \in ArtifactInputs
    /\ cleaned = <<>>
    /\ lines = <<>>
    /\ processedLines = <<>>
    /\ i = 0
    /\ cpc = "start"
    /\ repairIn = <<>>
    /\ IdleBatch
    /\ IdleServer

SpecArtifacts == InitArtifacts /\ [][NextClean]_vars

\* raw texts with blank lines: four lines that are never blank, or none, and
\* then up to MaxParts pieces out of the line break, the blank, a letter and
\* the characters whose surroundings the post-processing rewrites; and the
\* pages of a result, joined
MaxParts == 4
ParagraphPieces == {<<"\n">>, <<" ">>, <<"a">>, <<",">>, <<"|">>, <<"-">>, <<"@">>}
FourLines == <<"a","\n","b","\n","c","\n","d","\n">>
PagesJoined == FlattenPages(SomePages)
ParagraphInputs ==
    {lead \o Concat(ts) :
        lead \in {<<>>, FourLines}, ts \in SeqsUpTo(ParagraphPieces, MaxParts)}
    \cup {PagesJoined}

\* cleanExtractedText on raw texts with blank lines
InitParagraphs ==
    /\ text \in ParagraphInputs
    /\ cleaned = <<>>
    /\ lines = <<>>
    /\ processedLines = <<>>
    /\ i = 0
    /\ cpc = "start"
    /\ repairIn = <<>>
    /\ IdleBatch
    /\ IdleServer

SpecParagraphs == InitParagraphs /\ [][NextClean]_vars

(***************************************************************************)
(* The authentication service (auth.routes.ts, lines 141-692) and the      *)
(* authenticate middleware (middlewares/auth.ts, lines 8-114).  One action *)
(* is one request.  The lifetime of a token (config.jwt) is longer than    *)
(* the time that is modelled.                                              *)
(***************************************************************************)
MaxSeconds == 2
MsPerSecond == 1000
ResetTokenTtlMs == 3600000

\* the instants the clock shows: a full second, the millisecond after it
\* and the last millisecond before the next one
Instants == {k * MsPerSecond + d : k \in 1..MaxSeconds, d \in {0, 1, MsPerSecond - 1}}

UserIds == {"u1"}
Passwords == {"p1", "p2"}
\* the role a route asks for: none, or one the user has not (part_002, line 20)
RoleSets == {{}, {"SUPER_ADMIN"}}
\* a column that is NULL: a timestamp, a text
NullTime == 0
NullColumn == <<>>

\* bcrypt.hash and bcrypt.compare (lines 604-616)
HashPassword(p) == <<"bcrypt", p>>
ComparePassword(p, hash) == hash = HashPassword(p)
\* crypto.createHash('sha256') of a reset token (lines 690-692); the random
\* token of line 684 is named by the instant it was made at
HashPasswordResetToken(t) == <<"sha256", t>>

\* jwt.sign (lines 621-644): iat is the clock in whole seconds
IssuedAt(t) == t \div MsPerSecond
\* jwt.verify (lines 649-661)
VerifyAccessToken(tok) == tok.sig = "server"

\* rows of the users table
NoRow == [exists |-> FALSE, password |-> NullColumn, role |-> "USER",
          is_active |-> FALSE, is_deleted |-> FALSE,
          password_reset_at |-> NullTime, password_reset_token |-> NullColumn,
          password_reset_expires |-> NullTime, refresh_token |-> NullTime]
\* prisma.user.create (lines 160-165) with the defaults of the schema
NewRow(p) == [NoRow EXCEPT !.exists = TRUE, !.password = HashPassword(p),
                           !.is_active = TRUE]
InitialRows == {NoRow, NewRow("p1"),
                [NewRow("p1") EXCEPT !.is_active = FALSE],
                [NewRow("p1") EXCEPT !.is_deleted = TRUE]}

\* generateAccessToken (lines 621-630) with the payload the callers build
\* from the row of the user (lines 177-181, 240-244, 355-359): the token
\* carries the role the user has when it is signed
GenerateAccessToken(u, t) ==
    [userId |-> u, role |-> users[u].role, iat |-> IssuedAt(t), sig |-> "server"]
\* a token the server has not signed
ForgedToken(u) == [userId |-> u, role |-> "SUPER_ADMIN", iat |-> 1, sig |-> "forged"]
NoToken == [userId |-> "", role |-> "", iat |-> 0, sig |-> "none"]

\* the Authorization header of a request
NoHeader == [kind |-> "none", token |-> NoToken]
BasicHeader == [kind |-> "basic", token |-> NoToken]
Bearer(tok) == [kind |-> "bearer", token |-> tok]
Headers == {NoHeader, BasicHeader, Bearer(NoToken)}
           \cup {Bearer(ForgedToken(u)) : u \in UserIds}
           \cup {Bearer(tok) : tok \in issued}

\* tokenIssuedAt < passwordResetTime (line 84)
IssuedBefore(tokenIssuedAt, passwordResetTime) == tokenIssuedAt < passwordResetTime

\* a variant of lines 100-107 that trusts the role the token carries
AuthStatusTokenRole(h, roles) ==
    IF h.kind # "bearer" THEN 401
    ELSE IF h.token = NoToken THEN 401
    ELSE IF ~VerifyAccessToken(h.token) THEN 401
    ELSE LET tokenIssuedAt == IF h.token.iat # 0 THEN h.token.iat * MsPerSecond
                              ELSE NullTime
             user == users[h.token.userId]
         IN  IF ~user.exists THEN 401
             ELSE IF user.is_deleted THEN 401
             ELSE IF ~user.is_active THEN 401
             ELSE IF /\ user.password_reset_at # NullTime
                     /\ tokenIssuedAt # NullTime
                     /\ IssuedBefore(tokenIssuedAt, user.password_reset_at) THEN 401
             ELSE IF roles # {} /\ h.token.role \notin roles THEN 403
             ELSE 200

\* the status authenticate(...roles) answers a request with: 200 stands for
\* next(), 401 and 403 for next(error)  (auth.ts, lines 14-112)
AuthStatus(h, roles) ==
    IF h.kind # "bearer" THEN 401
    ELSE IF h.token = NoToken THEN 401
    ELSE IF ~VerifyAccessToken(h.token) THEN 401
    ELSE LET tokenIssuedAt == IF h.token.iat # 0 THEN h.token.iat * MsPerSecond
                              ELSE NullTime
             user == users[h.token.userId]
         IN  IF ~user.exists THEN 401
             ELSE IF user.is_deleted THEN 401
             ELSE IF ~user.is_active THEN 401
             ELSE IF /\ user.password_reset_at # NullTime
                     /\ tokenIssuedAt # NullTime
                     /\ IssuedBefore(tokenIssuedAt, user.password_reset_at) THEN 401
             ELSE IF roles # {} /\ user.role \notin roles THEN 403
             ELSE 200

unchangedOthers == UNCHANGED <<cleanVars, batchVars, routeVars, moreVars>>
TokensOf(u) == {tok \in issued : tok.userId = u}
NoAuth == [header |-> NoHeader, status |-> 0, wasStale |-> FALSE]

\* time passes
Tick ==
    /\ \E t \in Instants : t > now /\ now' = t
    /\ UNCHANGED <<users, issued, stale, lastAuth>>
    /\ unchangedOthers

\* authenticate(...roles) handles a request (auth.ts, lines 8-114)
Authenticate(h, roles) ==
    /\ lastAuth' = [header |-> h, status |-> AuthStatus(h, roles),
                    wasStale |-> h.token \in stale]
    /\ UNCHANGED <<now, users, issued, stale>>
    /\ unchangedOthers

\* register (lines 141-199)
Register(u, p) ==
    /\ ~users[u].exists
    /\ users' = [users EXCEPT ![u] = [NewRow(p) EXCEPT !.refresh_token = IssuedAt(now)]]
    /\ issued' = issued \cup {GenerateAccessToken(u, now)}
    /\ UNCHANGED <<now, stale, lastAuth>>
    /\ unchangedOthers

\* login (lines 204-269)
Login(u, p) ==
    /\ users[u].exists
    /\ ~users[u].is_deleted
    /\ users[u].is_active
    /\ ComparePassword(p, users[u].password)
    /\ issued' = issued \cup {GenerateAccessToken(u, now)}
    /\ users' = [users EXCEPT ![u].refresh_token = IssuedAt(now)]
    /\ UNCHANGED <<now, stale, lastAuth>>
    /\ unchangedOthers

\* refreshAccessToken (lines 316-370) with the refresh token signed at second k
RefreshAccessToken(u, k) ==
    /\ users[u].exists
    /\ users[u].refresh_token = k
    /\ ~users[u].is_deleted
    /\ users[u].is_active
    /\ issued' = issued \cup {GenerateAccessToken(u, now)}
    /\ UNCHANGED <<now, users, stale, lastAuth>>
    /\ unchangedOthers

\* forgotPassword (lines 375-444); mailSent is what sendMail does
ForgotPassword(u, mailSent) ==
    /\ users[u].exists
    /\ ~(users[u].is_deleted \/ ~users[u].is_active)
    /\ users' = IF mailSent
                THEN [users EXCEPT ![u].password_reset_token = HashPasswordResetToken(now),
                                   ![u].password_reset_expires = now + ResetTokenTtlMs]
                ELSE [users EXCEPT ![u].password_reset_token = NullColumn,
                                   ![u].password_reset_expires = NullTime]
    /\ UNCHANGED <<now, issued, stale, lastAuth>>
    /\ unchangedOthers

\* resetPassword (lines 449-506) with the token that was made at instant t
ResetPassword(t, p) ==
    \E u \in UserIds :
        /\ users[u].exists
        /\ users[u].password_reset_token = HashPasswordResetToken(t)
        /\ users[u].password_reset_expires > now
        /\ ~users[u].is_deleted
        /\ users[u].is_active
        /\ users' = [users EXCEPT ![u].password = HashPassword(p),
                                  ![u].password_reset_token = NullColumn,
                                  ![u].password_reset_expires = NullTime,
                                  ![u].password_reset_at = now,
                                  ![u].refresh_token = NullTime]
        /\ stale' = stale \cup TokensOf(u)
        /\ UNCHANGED <<now, issued, lastAuth>>
        /\ unchangedOthers

\* POST /change-password: authenticate(), then changePassword (lines 511-565)
ChangePassword(tok, currentPassword, newPassword) ==
    LET u == tok.userId
    IN  /\ AuthStatus(Bearer(tok), {}) = 200
        /\ users[u].exists
        /\ ~users[u].is_deleted
        /\ users[u].is_active
        /\ ComparePassword(currentPassword, users[u].password)
        /\ users' = [users EXCEPT ![u].password = HashPassword(newPassword),
                                  ![u].password_reset_at = now,
                                  ![u].refresh_token = NullTime]
        /\ stale' = stale \cup TokensOf(u)
        /\ UNCHANGED <<now, issued, lastAuth>>
        /\ unchangedOthers

\* POST /logout: authenticate(), then logout (lines 570-579)
Logout(tok) ==
    /\ AuthStatus(Bearer(tok), {}) = 200
    /\ users' = [users EXCEPT ![tok.userId].refresh_token = NullTime]
    /\ UNCHANGED <<now, issued, stale, lastAuth>>
    /\ unchangedOthers

\* no request is being routed
IdleRoutes ==
    /\ nodeEnv = ""
    /\ hits = <<>>
    /\ delivered = <<>>
    /\ requests = 0

InitAuth ==
    /\ now = SetMin(Instants)
    /\ users \in [UserIds -> InitialRows]
    /\ issued = {}
    /\ stale = {}
    /\ lastAuth = NoAuth
    /\ IdleRoutes
    /\ IdleMore
    /\ IdleClean
    /\ IdleBatch

NextAuth ==
    \/ Tick
    \/ \E h \in Headers, roles \in RoleSets : Authenticate(h, roles)
    \/ \E u \in UserIds, p \in Passwords : Register(u, p)
    \/ \E u \in UserIds, p \in Passwords : Login(u, p)
    \/ \E u \in UserIds, k \in 1..MaxSeconds : RefreshAccessToken(u, k)
    \/ \E u \in UserIds, mailSent \in BOOLEAN : ForgotPassword(u, mailSent)
    \/ \E t \in Instants, p \in Passwords : ResetPassword(t, p)
    \/ \E tok \in issued, cur \in Passwords, new \in Passwords : ChangePassword(tok, cur, new)
    \/ \E tok \in issued : Logout(tok)

SpecAuth == InitAuth /\ [][NextAuth]_vars

(***************************************************************************)
(* The router of the authentication endpoints (auth.routes.ts, lines       *)
(* 20-71) and its rate limiters (rate-limiter.ts).  A limiter counts the   *)
(* requests of an IP in its window and answers 429 with its message once   *)
(* the count exceeds max; it counts nothing when skip() is true.           *)
(***************************************************************************)
MaxRequests == 6
Ips == {"ip1", "ip2"}
NodeEnvs == {"test", "development", "production"}

AuthMax == 5
ForgotPasswordMax == 3
RefreshTokenMax == 10
ResetPasswordMax == 5
QuarterHourMs == 15 * 60 * 1000
HourMs == 60 * 60 * 1000

\* rate-limiter.ts, lines 7-74
authRateLimiter ==
    [name |-> "authRateLimiter", windowMs |-> QuarterHourMs, max |-> AuthMax,
     message |-> "Too many authentication attempts, please try again later"]
forgotPasswordRateLimiter ==
    [name |-> "forgotPasswordRateLimiter", windowMs |-> HourMs, max |-> ForgotPasswordMax,
     message |-> "Too many password reset requests, please try again later"]
refreshTokenRateLimiter ==
    [name |-> "refreshTokenRateLimiter", windowMs |-> QuarterHourMs, max |-> RefreshTokenMax,
     message |-> "Too many token refresh requests, please try again later"]
resetPasswordRateLimiter ==
    [name |-> "resetPasswordRateLimiter", windowMs |-> HourMs, max |-> ResetPasswordMax,
     message |-> "Too many password reset attempts, please try again later"]
Limiters == {authRateLimiter, forgotPasswordRateLimiter, refreshTokenRateLimiter,
             resetPasswordRateLimiter}
LimiterNames == {l.name : l \in Limiters}

\* the public POST routes and the limiters mounted on them (auth.routes.ts,
\* lines 24-59): on /login and /register the limiter is commented out
PublicRoutes == {"/login", "/register", "/refresh-token", "/forgot-password",
                 "/reset-password"}
MountedLimiters(route) ==
    CASE route = "/login" -> {}
      [] route = "/register" -> {}
      [] route = "/refresh-token" -> {refreshTokenRateLimiter}
      [] route = "/forgot-password" -> {forgotPasswordRateLimiter}
      [] route = "/reset-password" -> {resetPasswordRateLimiter}

\* skip: (_req) => process.env.NODE_ENV === 'test'
SkipLimiter == nodeEnv = "test"
\* the limiters that count the request
Counting(route) == IF SkipLimiter THEN {} ELSE MountedLimiters(route)

unchangedRest == UNCHANGED <<cleanVars, batchVars, authVars, moreVars>>

\* a request to a public route goes through the route's limiter and through
\* validateRequest to the controller
Request(route, ip, bodyValid) ==
    /\ requests < MaxRequests
    /\ requests' = requests + 1
    /\ hits' = [n \in LimiterNames |->
                  IF \E l \in Counting(route) : l.name = n
                  THEN [hits[n] EXCEPT ![ip] = @ + 1] ELSE hits[n]]
    /\ LET limited == \E l \in Counting(route) : hits'[l.name][ip] > l.max
       IN  delivered' = IF ~limited /\ bodyValid
                        THEN [delivered EXCEPT ![route][ip] = @ + 1]
                        ELSE delivered
    /\ UNCHANGED nodeEnv
    /\ unchangedRest

\* the window of a limiter ends for an IP
WindowEnds(l, ip) ==
    /\ hits[l.name][ip] > 0
    /\ hits' = [hits EXCEPT ![l.name][ip] = 0]
    /\ delivered' = [r \in PublicRoutes |->
                       IF l \in MountedLimiters(r) THEN [delivered[r] EXCEPT ![ip] = 0]
                       ELSE delivered[r]]
    /\ UNCHANGED <<nodeEnv, requests>>
    /\ unchangedRest

\* no request reaches the authentication service
IdleAuth ==
    /\ now = 0
    /\ users = <<>>
    /\ issued = {}
    /\ stale = {}
    /\ lastAuth = <<>>

InitRoutes ==
    /\ nodeEnv \in NodeEnvs
    /\ hits = [n \in LimiterNames |-> [ip \in Ips |-> 0]]
    /\ delivered = [r \in PublicRoutes |-> [ip \in Ips |-> 0]]
    /\ requests = 0
    /\ IdleAuth
    /\ IdleMore
    /\ IdleClean
    /\ IdleBatch

NextRoutes ==
    \/ \E r \in PublicRoutes, ip \in Ips, bodyValid \in BOOLEAN : Request(r, ip, bodyValid)
    \/ \E l \in Limiters, ip \in Ips : WindowEnds(l, ip)

SpecRoutes == InitRoutes /\ [][NextRoutes]_vars

(***************************************************************************)
(* The refresh tokens (auth.routes.ts, lines 316-370): every request to    *)
(* refreshAccessToken, with the answer it gets.  A refresh token is a JWT  *)
(* over the user and the second it was signed in (lines 635-644) and is    *)
(* named by that second; the users table keeps the last one.               *)
(***************************************************************************)
BadRequest == 400
Ok == 200
Unauthorized == 401
\* a refresh token the server has not signed
ForgedRefreshToken == 0 - 1
\* the refresh tokens a request can present: none, a forged one, one signed
\* in a second of the model
RefreshTokens == {NullTime, ForgedRefreshToken} \cup (1..MaxSeconds)

\* a variant of lines 316-356 without the comparison with the stored token
RefreshStatusAnySigned(u, k) ==
    IF k = NullTime THEN Unauthorized
    ELSE IF k = ForgedRefreshToken THEN Unauthorized
    ELSE IF ~users[u].exists THEN Unauthorized
    ELSE IF users[u].is_deleted THEN Unauthorized
    ELSE IF ~users[u].is_active THEN Unauthorized
    ELSE Ok

\* lines 316-356: the status refreshAccessToken answers the refresh token k
\* of user u with
RefreshStatus(u, k) ==
    IF k = NullTime THEN Unauthorized
    ELSE IF k = ForgedRefreshToken THEN Unauthorized
    ELSE IF ~users[u].exists \/ users[u].refresh_token # k THEN Unauthorized
    ELSE IF users[u].is_deleted THEN Unauthorized
    ELSE IF ~users[u].is_active THEN Unauthorized
    ELSE Ok

NoRefresh == [userId |-> "", token |-> NullTime, status |-> 0,
              stored |-> NullTime, usable |-> FALSE]

\* POST /refresh-token: refreshAccessToken (lines 316-370) handles a request
RefreshRequest(u, k) ==
    /\ lastRefresh' = [userId |-> u, token |-> k, status |-> RefreshStatus(u, k),
                       stored |-> users[u].refresh_token,
                       usable |-> /\ users[u].exists
                                  /\ ~users[u].is_deleted
                                  /\ users[u].is_active]
    /\ issued' = IF RefreshStatus(u, k) = Ok
                 THEN issued \cup {GenerateAccessToken(u, now)} ELSE issued
    /\ UNCHANGED <<now, users, stale, lastAuth>>
    /\ UNCHANGED <<cleanVars, batchVars, routeVars, uploadVars, forgotReplies, laterVars>>

\* no request has been answered
NoReplies ==
    /\ lastRefresh = NoRefresh
    /\ forgotReplies = {}

InitRefresh ==
    /\ now = SetMin(Instants)
    /\ users \in [UserIds -> InitialRows]
    /\ issued = {}
    /\ stale = {}
    /\ lastAuth = NoAuth
    /\ NoReplies
    /\ IdleLater
    /\ IdleUpload
    /\ IdleRoutes
    /\ IdleClean
    /\ IdleBatch

NextRefresh ==
    \/ Tick
    \/ \E u \in UserIds, p \in Passwords : Register(u, p)
    \/ \E u \in UserIds, p \in Passwords : Login(u, p)
    \/ \E u \in UserIds, k \in RefreshTokens : RefreshRequest(u, k)
    \/ \E u \in UserIds, mailSent \in BOOLEAN : ForgotPassword(u, mailSent)
    \/ \E t \in Instants, p \in Passwords : ResetPassword(t, p)
    \/ \E tok \in issued, cur \in Passwords, new \in Passwords : ChangePassword(tok, cur, new)
    \/ \E tok \in issued : Logout(tok)

SpecRefresh == InitRefresh /\ [][NextRefresh]_vars

(***************************************************************************)
(* POST /forgot-password (auth.routes.ts, lines 375-444, and               *)
(* auth.controller.ts, lines 93-102): every request, with its answer.      *)
(***************************************************************************)
InternalServerError == 500
LinkSent == "A password reset link has been sent."
LinkSentIfExists ==
    "If an account with that email exists, a password reset link has been sent."
MailFailed == "Failed to send password reset email"

\* what the caller asked about: an address without an account, an account
\* that is deleted or deactivated, an account in use
AccountKind(u) ==
    IF ~users[u].exists THEN "unknown"
    ELSE IF users[u].is_deleted \/ ~users[u].is_active THEN "unusable"
    ELSE "active"

\* lines 380-395 and 423-443, and the controller: status and message of the answer
ForgotReply(u, mailSent) ==
    IF AccountKind(u) # "active" THEN [status |-> Ok, message |-> LinkSent]
    ELSE IF mailSent THEN [status |-> Ok, message |-> LinkSentIfExists]
    ELSE [status |-> InternalServerError, message |-> MailFailed]

\* forgotPassword handles a request; mailSent is what sendMail does
ForgotRequest(u, mailSent) ==
    /\ forgotReplies' = forgotReplies \cup
            {[account |-> AccountKind(u), mailSent |-> mailSent,
              reply |-> ForgotReply(u, mailSent)]}
    /\ users' = IF AccountKind(u) # "active" THEN users
                ELSE IF mailSent
                THEN [users EXCEPT ![u].password_reset_token = HashPasswordResetToken(now),
                                   ![u].password_reset_expires = now + ResetTokenTtlMs]
                ELSE [users EXCEPT ![u].password_reset_token = NullColumn,
                                   ![u].password_reset_expires = NullTime]
    /\ UNCHANGED <<now, issued, stale, lastAuth>>
    /\ UNCHANGED <<cleanVars, batchVars, routeVars, uploadVars, lastRefresh, laterVars>>

\* an account is deleted or deactivated in the database, or put back in use
SetAccountFlags(u, active, deleted) ==
    /\ users[u].exists
    /\ users' = [users EXCEPT ![u].is_active = active, ![u].is_deleted = deleted]
    /\ UNCHANGED <<now, issued, stale, lastAuth>>
    /\ unchangedOthers

InitForgot ==
    /\ now = SetMin(Instants)
    /\ users \in [UserIds -> InitialRows]
    /\ issued = {}
    /\ stale = {}
    /\ lastAuth = NoAuth
    /\ NoReplies
    /\ IdleLater
    /\ IdleUpload
    /\ IdleRoutes
    /\ IdleClean
    /\ IdleBatch

NextForgot ==
    \/ Tick
    \/ \E u \in UserIds, p \in Passwords : Register(u, p)
    \/ \E u \in UserIds, mailSent \in BOOLEAN : ForgotRequest(u, mailSent)
    \/ \E u \in UserIds, active \in BOOLEAN, deleted \in BOOLEAN :
          SetAccountFlags(u, active, deleted)

SpecForgot == InitForgot /\ [][NextForgot]_vars

(***************************************************************************)
(* resetPassword (auth.routes.ts, lines 449-506) as the two database       *)
(* operations it is made of, findFirst (line 456) and update (line 491),   *)
(* with the awaits between them; several calls run side by side.           *)
(***************************************************************************)
ResetCalls == {1, 2}
NoReset == [pc |-> "idle", userId |-> "", token |-> NullTime,
            password |-> "", status |-> 0]

\* the users prisma.user.findFirst of lines 456-463 can return for the token
\* that was made at instant t
UsersWithToken(t) ==
    {u \in UserIds :
        /\ users[u].exists
        /\ users[u].password_reset_token = HashPasswordResetToken(t)
        /\ users[u].password_reset_expires > now}

\* lines 449-485: the lookup and the checks of the row that was read
ResetFind(c, t, p) ==
    /\ resets[c].pc = "idle"
    /\ \/ /\ UsersWithToken(t) = {}
          /\ resets' = [resets EXCEPT ![c] =
                           [NoReset EXCEPT !.pc = "done", !.token = t, !.password = p,
                                           !.status = BadRequest]]
       \/ \E u \in UsersWithToken(t) :
             resets' = [resets EXCEPT ![c] =
                IF users[u].is_deleted \/ ~users[u].is_active
                THEN [NoReset EXCEPT !.pc = "done", !.userId = u, !.token = t,
                                     !.password = p, !.status = BadRequest]
                ELSE [NoReset EXCEPT !.pc = "found", !.userId = u, !.token = t,
                                     !.password = p]]
    /\ UNCHANGED <<authVars, cleanVars, batchVars, routeVars, uploadVars, replyVars, jobVars>>

\* lines 487-505: the password is hashed and the row of the user that was
\* read is updated, whatever the row holds by now
ResetUpdate(c) ==
    /\ resets[c].pc = "found"
    /\ users' = [users EXCEPT ![resets[c].userId] =
                    [@ EXCEPT !.password = HashPassword(resets[c].password),
                              !.password_reset_token = NullColumn,
                              !.password_reset_expires = NullTime,
                              !.password_reset_at = now,
                              !.refresh_token = NullTime]]
    /\ stale' = stale \cup TokensOf(resets[c].userId)
    /\ resets' = [resets EXCEPT ![c].pc = "done", ![c].status = Ok]
    /\ UNCHANGED <<now, issued, lastAuth>>
    /\ UNCHANGED <<cleanVars, batchVars, routeVars, uploadVars, replyVars, jobVars>>

\* forgotPassword, before the calls of resetPassword begin: a token made
\* later is another random value (line 683), which its name in the model,
\* the instant, does not tell
ForgotBeforeResets(u, mailSent) ==
    /\ \A c \in ResetCalls : resets[c].pc = "idle"
    /\ ForgotPassword(u, mailSent)

InitReset ==
    /\ now = SetMin(Instants)
    /\ users \in [UserIds -> InitialRows]
    /\ issued = {}
    /\ stale = {}
    /\ lastAuth = NoAuth
    /\ resets = [c \in ResetCalls |-> NoReset]
    /\ IdleReplies
    /\ IdleJobs
    /\ IdleUpload
    /\ IdleRoutes
    /\ IdleClean
    /\ IdleBatch

NextReset ==
    \/ Tick
    \/ \E u \in UserIds, mailSent \in BOOLEAN : ForgotBeforeResets(u, mailSent)
    \/ \E c \in ResetCalls, t \in Instants, p \in Passwords : ResetFind(c, t, p)
    \/ \E c \in ResetCalls : ResetUpdate(c)

SpecReset == InitReset /\ [][NextReset]_vars

(***************************************************************************)
(* authenticate(...roles) (auth.ts, lines 8-114) while the row of the user *)
(* is changed in the database: the role, is_active and is_deleted are      *)
(* written, or the row is removed.  No handler of the service writes the   *)
(* role or removes a row; the writes come from outside.                    *)
(***************************************************************************)
UserRoles == {"USER", "SUPER_ADMIN"}

\* UPDATE users SET role = r
SetRole(u, r) ==
    /\ users[u].exists
    /\ users[u].role # r
    /\ users' = [users EXCEPT ![u].role = r]
    /\ UNCHANGED <<now, issued, stale, lastAuth>>
    /\ unchangedOthers

\* DELETE FROM users: findUnique of line 47 finds no row from now on
RemoveUser(u) ==
    /\ users[u].exists
    /\ users' = [users EXCEPT ![u] = NoRow]
    /\ UNCHANGED <<now, issued, stale, lastAuth>>
    /\ unchangedOthers

\* an account that has been registered, with no token in use yet
InitAccounts ==
    /\ now = SetMin(Instants)
    /\ users \in [UserIds -> InitialRows \ {NoRow}]
    /\ issued = {}
    /\ stale = {}
    /\ lastAuth = NoAuth
    /\ IdleRoutes
    /\ IdleMore
    /\ IdleClean
    /\ IdleBatch

NextAccounts ==
    \/ Tick
    \/ \E h \in Headers, roles \in RoleSets : Authenticate(h, roles)
    \/ \E u \in UserIds, p \in Passwords : Login(u, p)
    \/ \E u \in UserIds, active \in BOOLEAN, deleted \in BOOLEAN :
          SetAccountFlags(u, active, deleted)
    \/ \E u \in UserIds, r \in UserRoles : SetRole(u, r)
    \/ \E u \in UserIds : RemoveUser(u)

SpecAccounts == InitAccounts /\ [][NextAccounts]_vars

(***************************************************************************)
(* updateJob and deleteJob (job.services.ts, lines 240-314) behind the     *)
(* routes PATCH /:id and DELETE /:id (part_002, lines 54-66): one action   *)
(* is one call by a user the role check of the route has let through.      *)
(***************************************************************************)
Forbidden == 403
NotFound == 404

JobIds == {"j1", "j2"}
Titles == {"t1", "t2"}
\* the users that call the job service, with their roles
JobCallers == {"s1", "s2", "admin"}
CallerRole(u) == IF u = "admin" THEN "SUPER_ADMIN" ELSE "SUBSCRIBER"

NoJob == [exists |-> FALSE, user_id |-> "", title |-> ""]
NoJobCall == [op |-> "none", jobId |-> "", userId |-> "", status |-> 0,
              before |-> <<>>, after |-> <<>>]

\* a variant of lines 254-260 and 299-305 that lets a SUPER_ADMIN through
JobAccessOwnerOrAdmin(j, u) ==
    IF ~jobs[j].exists THEN NotFound
    ELSE IF jobs[j].user_id # u /\ CallerRole(u) # "SUPER_ADMIN" THEN Forbidden
    ELSE Ok

\* lines 245-260 and 290-305: the job is looked up and its owner compared
\* with the caller
JobAccess(j, u) ==
    IF ~jobs[j].exists THEN NotFound
    ELSE IF jobs[j].user_id # u THEN Forbidden
    ELSE Ok

\* createJob (lines 41-84) behind POST /, which admits a SUBSCRIBER
CreateJob(j, u, title) ==
    /\ CallerRole(u) = "SUBSCRIBER"
    /\ ~jobs[j].exists
    /\ jobs' = [jobs EXCEPT ![j] = [exists |-> TRUE, user_id |-> u, title |-> title]]
    /\ UNCHANGED lastJob
    /\ UNCHANGED <<cleanVars, batchVars, authVars, routeVars, uploadVars, replyVars,
                   resetVars>>

\* updateJob (lines 240-283)
UpdateJob(j, u, title) ==
    /\ jobs' = IF JobAccess(j, u) = Ok THEN [jobs EXCEPT ![j].title = title] ELSE jobs
    /\ lastJob' = [op |-> "update", jobId |-> j, userId |-> u,
                   status |-> JobAccess(j, u), before |-> jobs, after |-> jobs']
    /\ UNCHANGED <<cleanVars, batchVars, authVars, routeVars, uploadVars, replyVars,
                   resetVars>>

\* deleteJob (lines 288-314)
DeleteJob(j, u) ==
    /\ jobs' = IF JobAccess(j, u) = Ok THEN [jobs EXCEPT ![j] = NoJob] ELSE jobs
    /\ lastJob' = [op |-> "delete", jobId |-> j, userId |-> u,
                   status |-> JobAccess(j, u), before |-> jobs, after |-> jobs']
    /\ UNCHANGED <<cleanVars, batchVars, authVars, routeVars, uploadVars, replyVars,
                   resetVars>>

InitJobs ==
    /\ jobs = [j \in JobIds |-> NoJob]
    /\ lastJob = NoJobCall
    /\ IdleResets
    /\ IdleReplies
    /\ IdleUpload
    /\ IdleAuth
    /\ IdleRoutes
    /\ IdleClean
    /\ IdleBatch

NextJobs ==
    \/ \E j \in JobIds, u \in JobCallers, title \in Titles : CreateJob(j, u, title)
    \/ \E j \in JobIds, u \in JobCallers, title \in Titles : UpdateJob(j, u, title)
    \/ \E j \in JobIds, u \in JobCallers : DeleteJob(j, u)

SpecJobs == InitJobs /\ [][NextJobs]_vars

(***************************************************************************)
(* uploadResumes (candidate.controller.ts, lines 7-39): one request.       *)
(***************************************************************************)
MaxFiles == 3

\* an entry of req.files: null, an object without a buffer, an object whose
\* buffer is null, an uploaded PDF
FileKinds == {"nullFile", "noBuffer", "nullBuffer", "pdf"}
\* req.files when no upload middleware has set it
NoFiles == <<"undefined">>
\* req.files as an object keyed by field name
FilesByField == <<"by field">>
RequestFiles == SeqsUpTo(FileKinds, MaxFiles) \cup {NoFiles, FilesByField}

\* file?.buffer  (line 18)
FileBuffer(f) ==
    IF f = "pdf" THEN "pdf" ELSE IF f = "nullBuffer" THEN "null" ELSE "undefined"

\* files.map((file) => file?.buffer).filter(buffer !== null && buffer !== undefined)
\* (lines 17-21)
FileBuffers(fs) ==
    SelectSeq([k \in 1..Len(fs) |-> FileBuffer(fs[k])],
              LAMBDA b : b \notin {"null", "undefined"})

NoResponse == [status |-> 0, message |-> "", extractedTexts |-> <<>>]

\* !files || !Array.isArray(files) || files.length === 0  (line 12)
IsNoUpload(fs) == fs \in {NoFiles, FilesByField} \/ fs = <<>>

\* lines 12-14 and 23-25: the request is rejected
RejectUpload ==
    /\ response = NoResponse
    /\ opc[1] = "idle"
    /\ \/ /\ IsNoUpload(files)
          /\ response' = [NoResponse EXCEPT !.status = BadRequest,
                                            !.message = "No files uploaded"]
       \/ /\ ~IsNoUpload(files)
          /\ FileBuffers(files) = <<>>
          /\ response' = [NoResponse EXCEPT !.status = BadRequest,
                                            !.message = "No valid file buffers found"]
    /\ UNCHANGED <<files, batchVars, cleanVars, authVars, routeVars, replyVars, laterVars>>

\* lines 9-29: extractTextFromPDFs is called with the buffers that are left
CallExtract ==
    /\ response = NoResponse
    /\ opc[1] = "idle"
    /\ ~IsNoUpload(files)
    /\ FileBuffers(files) # <<>>
    /\ buffers' = [buffers EXCEPT ![1] = FileBuffers(files)]
    /\ opc' = [opc EXCEPT ![1] = "loop"]
    /\ UNCHANGED <<runs, idx, extractedTexts, outcomes, calls>>
    /\ UNCHANGED <<uploadVars, cleanVars, authVars, routeVars, replyVars, laterVars>>

\* lines 31-38: the texts are sent
SendTexts ==
    /\ response = NoResponse
    /\ opc[1] = "returned"
    /\ response' = [status |-> Ok, message |-> "Resumes uploaded successfully",
                    extractedTexts |-> extractedTexts[1]]
    /\ UNCHANGED <<files, batchVars, cleanVars, authVars, routeVars, replyVars, laterVars>>

InitUpload ==
    /\ files \in RequestFiles
    /\ response = NoResponse
    /\ runs = {1}
    /\ buffers = [r \in {1} |-> <<>>]
    /\ idx = [r \in {1} |-> 0]
    /\ extractedTexts = [r \in {1} |-> <<>>]
    /\ outcomes = [r \in {1} |-> <<>>]
    /\ calls = [r \in {1} |-> <<>>]
    /\ opc = [r \in {1} |-> "idle"]
    /\ IdleReplies
    /\ IdleLater
    /\ IdleClean
    /\ IdleAuth
    /\ IdleRoutes

\* the buffers handed over are all present: the loop of extractTextFromPDFs
\* extracts or fails for each of them
NextUpload ==
    \/ RejectUpload
    \/ CallExtract
    \/ ExtractText(1)
    \/ ExtractFails(1)
    \/ ReturnTexts(1)
    \/ SendTexts

SpecUpload == InitUpload /\ [][NextUpload]_vars

(***************************************************************************)
(* Properties of extractTextFromPDFs.                                      *)
(***************************************************************************)
IsArrayArg(r) == buffers[r] # NotAnArray
Failed(o) == o.kind \in {"constructorThrows", "getTextRejects"}
Absent(b) == b \in {"null", "undefined"}

\* C1: for every array passed to extractTextFromPDFs, whatever mix of present,
\* absent and failing documents it holds, the array returned has exactly the
\* length of the array passed.
C1_SameLength ==
    \A r \in runs :
        opc[r] = "returned" /\ IsArrayArg(r) => Len(extractedTexts[r]) = Len(buffers[r])

\* a returned batch of three documents: one absent, one that failed, one that was read
C1_Witness ==
    \E r \in runs :
        /\ opc[r] = "returned"
        /\ IsArrayArg(r)
        /\ Len(buffers[r]) = 3
        /\ Len(extractedTexts[r]) = 3
        /\ \E a, f, g \in 1..3 :
              /\ Absent(buffers[r][a])
              /\ Failed(outcomes[r][f])
              /\ outcomes[r][g].kind = "string"
              /\ extractedTexts[r][g] # <<>>

\* C2: a document never makes extractTextFromPDFs throw or reject: the slot of
\* each document whose extraction failed holds the empty string, the loop goes
\* on to the next document, and every other extracted document's slot holds
\* the cleaned text of its own result.
C2_FailureIsolated ==
    \A r \in runs :
        /\ opc[r] # "rejected"
        /\ opc[r] = "returned" /\ IsArrayArg(r) => Len(outcomes[r]) = Len(buffers[r])
        /\ \A k \in 1..Len(outcomes[r]) :
              /\ k <= Len(extractedTexts[r])
              /\ Failed(outcomes[r][k]) => extractedTexts[r][k] = <<>>
              /\ outcomes[r][k].kind \in {"string", "object", "nullish"} =>
                    extractedTexts[r][k] = CleanedResult[outcomes[r][k]]

\* the second of three documents failed; the first and the third were read
C2_Witness ==
    \E r \in runs :
        /\ opc[r] = "returned"
        /\ Len(buffers[r]) = 3
        /\ outcomes[r][2].kind = "getTextRejects"
        /\ outcomes[r][1].kind = "string"
        /\ outcomes[r][3].kind = "object"
        /\ extractedTexts[r][2] = <<>>
        /\ extractedTexts[r][1] # <<>>
        /\ extractedTexts[r][3] # <<>>

\* C3: output slot k depends only on input slot k and on the extractor's
\* outcome for that document: two calls that agree at position k (same
\* payload, same outcome) hold the same string at position k, whatever their
\* other documents are and whichever of them fail.
C3_SlotIndependent ==
    \A k \in 1..MaxPairDocs + 1 :
        (/\ k <= Len(outcomes[1])
         /\ k <= Len(outcomes[2])
         /\ buffers[1][k] = buffers[2][k]
         /\ outcomes[1][k] = outcomes[2][k])
        => /\ k <= Len(extractedTexts[1])
           /\ k <= Len(extractedTexts[2])
           /\ extractedTexts[1][k] = extractedTexts[2][k]

\* two returned calls that agree on their second document, which was read,
\* and differ before it: absent in one call, failed in the other
C3_Witness ==
    /\ runs = {1, 2}
    /\ opc[1] = "returned"
    /\ opc[2] = "returned"
    /\ Len(buffers[1]) = 2
    /\ Len(buffers[2]) = 2
    /\ Absent(buffers[1][1])
    /\ Failed(outcomes[2][1])
    /\ outcomes[1][2] = outcomes[2][2]
    /\ outcomes[1][2].kind = "string"
    /\ extractedTexts[1][2] = extractedTexts[2][2]
    /\ extractedTexts[1][2] # <<>>

\* C4: an absent (null or undefined) payload gets the empty string in its
\* slot and the extractor is not invoked for it; the extractor is invoked
\* exactly once for each present payload.
C4_AbsentNotExtracted ==
    \A r \in runs :
        \A k \in 1..Len(calls[r]) :
            /\ Absent(buffers[r][k]) =>
                  /\ calls[r][k] = 0
                  /\ k <= Len(extractedTexts[r])
                  /\ extractedTexts[r][k] = <<>>
            /\ ~Absent(buffers[r][k]) => calls[r][k] = 1

\* a returned batch with a null, an undefined and a present payload
C4_Witness ==
    \E r \in runs :
        /\ opc[r] = "returned"
        /\ buffers[r] = <<"null", "pdf", "undefined">>
        /\ calls[r] = <<0, 1, 0>>
        /\ extractedTexts[r][1] = <<>>
        /\ extractedTexts[r][3] = <<>>

(***************************************************************************)
(* Properties of cleanExtractedText.                                       *)
(***************************************************************************)
LoopDone == cpc \in {"post", "done"}
LastOf(q) == q[Len(q)]

\* C5: the post-processing (punctuation and spacing repair) is idempotent:
\* applied to its own result it changes nothing.
C5_RepairIdempotent == cpc = "again" => cleaned = repairIn

\* C6: the first two non-empty trimmed lines are each emitted verbatim as a
\* logical line of their own; no later line is appended to either of them.
C6_PreambleVerbatim ==
    LoopDone =>
        /\ Len(lines) >= 1 => Len(processedLines) >= 1 /\ processedLines[1] = lines[1]
        /\ Len(lines) >= 2 => Len(processedLines) >= 2 /\ processedLines[2] = lines[2]

\* C7: line reconstruction never appends a line to a logical line that ends
\* with ':': when the last logical line ends with a colon, the next line is
\* pushed as a new logical line.
C7_ColonBlocksMerge ==
    [][(/\ cpc = "loop"
        /\ i' = i + 1
        /\ processedLines # <<>>
        /\ LastOf(LastOf(processedLines)) = ":")
       => processedLines' = Append(processedLines, lines[i + 1])]_vars

\* a body line was merged into a line that then ended with ':' (50 characters
\* and more, so no colon header), and the body line after it was pushed
C7_Witness ==
    /\ cpc = "loop"
    /\ text = DocMergedColon
    /\ i = 4
    /\ processedLines = <<LineBody1,
                          <<"t","h","a","t"," ","s","c","a","l","e",".">> \o <<" ">> \o LineLongColon,
                          LinePython>>

\* lines of a text that begin with the given glyphs
StartsWith(l, glyphs) == l # <<>> /\ l[1] \in glyphs
CountStarting(ls, glyphs) == Cardinality({k \in 1..Len(ls) : StartsWith(ls[k], glyphs)})

\* C8: each line that begins with a bullet glyph starts a line of its own in
\* the text cleanExtractedText returns, and begins there with the black
\* circle: neither line reconstruction nor the post-processing joins it onto
\* the end of the preceding line.
C8_BulletsStartLines ==
    cpc = "done" /\ ~IsNoText(text) =>
        CountStarting(SplitLines(cleaned), {"U+25CF"}) >= CountStarting(lines, BulletGlyphs)

\* the last position before k that holds no whitespace (0 when none)
PrevToken(s, k) ==
    LET before == {q \in 1..(k - 1) : ~IsSpace(s[q])}
    IN  IF before = {} THEN 0 ELSE SetMax(before)
\* a number of exactly four digits ends at position e / starts at position b
YearEndsAt(s, e) ==
    /\ e >= YearDigits
    /\ \A q \in (e - YearDigits + 1)..e : s[q] \in Digit
    /\ e = YearDigits \/ ~IsWord(s[e - YearDigits])
YearStartsAt(s, b) ==
    /\ b >= 1
    /\ b + YearDigits - 1 <= Len(s)
    /\ \A q \in b..(b + YearDigits - 1) : s[q] \in Digit
    /\ b + YearDigits > Len(s) \/ ~IsWord(s[b + YearDigits])
IsLetter(c) == c \in Upper \cup Lower

\* C9: after the post-processing no '@' with text on both sides has
\* whitespace immediately before or after it, also when the text holds several
\* '@'.  (Text is read here as word characters: the nearest characters that
\* are no whitespace, before and after the '@', are letters or digits.)
C9_AtSignsTight ==
    cpc = "done" =>
        \A k \in 2..(Len(cleaned) - 1) :
            (/\ cleaned[k] = "@"
             /\ IsWord(cleaned[PrevToken(cleaned, k)])
             /\ IsWord(cleaned[SkipSpaces(cleaned, k + 1)]))
            => ~IsSpace(cleaned[k - 1]) /\ ~IsSpace(cleaned[k + 1])

\* C10: after the post-processing every hyphen between two 4-digit numbers
\* has exactly one space on each side, and a hyphen between two words has no
\* space on either side.
C10_HyphenSpacing ==
    cpc = "done" =>
        \A k \in 2..(Len(cleaned) - 1) :
            cleaned[k] = "-" =>
                LET b == PrevToken(cleaned, k)
                    a == SkipSpaces(cleaned, k + 1)
                IN  /\ (b > 0 /\ YearEndsAt(cleaned, b) /\ YearStartsAt(cleaned, a)) =>
                          /\ b = k - 2 /\ cleaned[k - 1] = " "
                          /\ a = k + 2 /\ cleaned[k + 1] = " "
                    /\ (b > 0 /\ IsLetter(cleaned[b]) /\ a <= Len(cleaned) /\ IsLetter(cleaned[a])) =>
                          b = k - 1 /\ a = k + 1

\* a text that consists only of whitespace, control characters and whole
\* page-separator artifacts
IsArtifactOnly(s) ==
    LET ok[p \in 1..(Len(s) + 1)] ==
            IF p > Len(s) THEN TRUE
            ELSE IF IsSpace(s[p]) \/ IsControl(s[p]) THEN ok[p + 1]
            ELSE IF PageSeparatorEnd(s, p) > 0 THEN ok[PageSeparatorEnd(s, p)]
            ELSE FALSE
    IN  ok[1]

\* C11: cleanExtractedText is total: a call is at one of the positions that
\* lead to its return (there is none where it has thrown), and for
\* null, undefined, the empty string and any text made only of whitespace,
\* control characters and page-separator artifacts it returns the empty string.
C11_TotalAndEmpty ==
    /\ cpc \in {"start", "split", "loop", "post", "done"}
    /\ cpc = "loop" => i <= Len(lines)
    /\ (cpc = "done" /\ (IsNoText(text) \/ IsArtifactOnly(text))) => cleaned = <<>>

\* a text of a separator, a control character and whitespace came back empty
C11_Witness ==
    /\ cpc = "done"
    /\ text = SepHead \o SepTail \o <<"U+0001">> \o <<"\t">>
    /\ cleaned = <<>>

(***************************************************************************)
(* Properties of the authentication service.                               *)
(***************************************************************************)
\* C12: after changePassword or resetPassword has succeeded for a user,
\* authenticate answers 401 to every later request that carries an access
\* token signed for that user before the password change.
C12_StaleTokensRejected ==
    (lastAuth.header.kind = "bearer" /\ lastAuth.wasStale) => lastAuth.status = 401

\* C13: outside the test environment at most 5 login and register requests
\* of one IP reach the controller in one 15-minute window: the sixth one is
\* answered by the rate limiter.
C13_LoginRegisterLimited ==
    nodeEnv \in NodeEnvs \ {"test"} =>
        \A ip \in Ips : delivered["/login"][ip] + delivered["/register"][ip] <= AuthMax

\* C14: in line reconstruction the line at position i is appended to the
\* last logical line, with exactly one space between them, if and only if
\* i >= 2, the line matches none of the bullet, caps-header, colon-header,
\* date-range and entity-location patterns, and the last logical line does not
\* end with ':'; in every other case it is pushed unchanged as a new logical
\* line.
C14_MergeExactlyWhen ==
    [][(cpc = "loop" /\ i' = i + 1) =>
         LET l == lines[i + 1]
             merges == /\ i >= 2
                       /\ ~IsBulletPoint(l)
                       /\ ~IsHeaderCaps(l)
                       /\ ~IsHeaderColon(l)
                       /\ ~IsDateRange(l)
                       /\ ~IsCompanyLocation(l)
                       /\ LastOf(LastOf(processedLines)) # ":"
         IN  IF merges
             THEN /\ Len(processedLines') = Len(processedLines)
                  /\ LastOf(processedLines') = LastOf(processedLines) \o <<" ">> \o l
                  /\ SubSeq(processedLines', 1, Len(processedLines) - 1)
                       = SubSeq(processedLines, 1, Len(processedLines) - 1)
             ELSE processedLines' = Append(processedLines, l)]_vars

\* the third line of the preamble document was appended to the second one,
\* after the first two were pushed
C14_Witness ==
    /\ cpc = "loop"
    /\ text = DocPreamble
    /\ i = 3
    /\ processedLines = <<<<"J","o","h","n"," ","D","o","e">>,
                          <<"S","e","n","i","o","r"," ","E","n","g","i","n","e","e","r">>
                              \o <<" ">> \o LineBody1>>

\* a line of capitals A-Z, spaces and '&' only
IsCapsOnly(l) == \A k \in 1..Len(l) : l[k] \in Upper \cup {" ", "&"}
\* the line at position i is appended to the last logical line
MergedNow ==
    /\ Len(processedLines') = Len(processedLines)
    /\ LastOf(processedLines') = LastOf(processedLines) \o <<" ">> \o lines[i + 1]
\* the line at position i starts a new logical line
PushedNow == processedLines' = Append(processedLines, lines[i + 1])

\* C15 (as stated): a trimmed line is a caps-header, and so starts a new
\* logical line, exactly when it consists only of A-Z, spaces and '&' and has
\* 2 to 34 characters; such a line of 35 or more characters at position >= 2
\* is merged into the previous logical line when that does not end with ':'.
C15_CapsHeaderUpTo34 ==
    [][(cpc = "loop" /\ i' = i + 1) =>
         LET l == lines[i + 1]
         IN  /\ IsHeaderCaps(l) <=> (IsCapsOnly(l) /\ Len(l) >= 2 /\ Len(l) <= 34)
             /\ IsHeaderCaps(l) => PushedNow
             /\ (/\ IsCapsOnly(l) /\ Len(l) >= 35
                 /\ i >= 2 /\ LastOf(LastOf(processedLines)) # ":") => MergedNow]_vars

\* C15 (amended): the same with 2 to 35 characters for the caps-header and 36
\* or more characters for the line that is merged.
C15_CapsHeaderUpTo35 ==
    [][(cpc = "loop" /\ i' = i + 1) =>
         LET l == lines[i + 1]
         IN  /\ IsHeaderCaps(l) <=> (IsCapsOnly(l) /\ Len(l) >= 2 /\ Len(l) <= 35)
             /\ IsHeaderCaps(l) => PushedNow
             /\ (/\ IsCapsOnly(l) /\ Len(l) >= 36
                 /\ i >= 2 /\ LastOf(LastOf(processedLines)) # ":") => MergedNow]_vars

\* a line of 35 capitals at position 2 was pushed after two body lines
C15_Witness ==
    /\ cpc = "loop"
    /\ i = 3
    /\ lines = <<LineBody1, LineBody1, CapsLine(35)>>
    /\ processedLines = lines

\* four digits end at position e / start at position b
FourDigitsEndAt(s, e) == e >= YearDigits /\ \A q \in (e - YearDigits + 1)..e : s[q] \in Digit
FourDigitsStartAt(s, b) ==
    b + YearDigits - 1 <= Len(s) /\ \A q \in b..(b + YearDigits - 1) : s[q] \in Digit

\* C16: after the post-processing no hyphen with a word character on each
\* side, separated from it by whitespace only, keeps that whitespace, unless
\* both neighbours are 4-digit numbers: "X - Y" becomes "X-Y", for every hyphen
\* of a chain such as "a - b - c" too.
C16_WordHyphensTight ==
    cpc = "done" =>
        \A k \in 2..(Len(cleaned) - 1) :
            cleaned[k] = "-" =>
                LET b == PrevToken(cleaned, k)
                    a == SkipSpaces(cleaned, k + 1)
                IN  (/\ b > 0 /\ IsWord(cleaned[b])
                     /\ a <= Len(cleaned) /\ IsWord(cleaned[a])
                     /\ ~(FourDigitsEndAt(cleaned, b) /\ FourDigitsStartAt(cleaned, a)))
                    => b = k - 1 /\ a = k + 1

\* C17: in the text the post-processing returns every '|' has exactly one
\* space before it and exactly one space after it, for any input, also for
\* adjacent pipes, a pipe next to a line break and a pipe at the very start or
\* end of the text.
C17_PipesSpaced ==
    cpc = "done" =>
        \A k \in 1..Len(cleaned) :
            cleaned[k] = "|" =>
                /\ k > 1 /\ cleaned[k - 1] = " "
                /\ k > 2 => ~IsSpace(cleaned[k - 2])
                /\ k < Len(cleaned) /\ cleaned[k + 1] = " "
                /\ k + 1 < Len(cleaned) => ~IsSpace(cleaned[k + 2])

\* C18: the post-processing turns "word ,word" into "word, word": for a mark
\* in . , ; : ! ? that stands between two words, no whitespace is left in
\* front of the mark and exactly one space separates it from the word that
\* follows it.
C18_PunctuationSpacing ==
    cpc = "done" =>
        /\ repairIn = TextWordComma =>
              cleaned = <<"w","o","r","d",","," ","w","o","r","d">>
        /\ \A k \in 2..(Len(cleaned) - 1) :
              (/\ IsPunct(cleaned[k])
               /\ PrevToken(cleaned, k) > 0
               /\ IsWord(cleaned[PrevToken(cleaned, k)])
               /\ SkipSpaces(cleaned, k + 1) <= Len(cleaned)
               /\ IsWord(cleaned[SkipSpaces(cleaned, k + 1)]))
              => /\ PrevToken(cleaned, k) = k - 1
                 /\ cleaned[k + 1] = " "
                 /\ SkipSpaces(cleaned, k + 1) = k + 2

\* the call is past the artifact cleaning of lines 9-19 and `cleaned` still
\* holds its result
Normalized == cpc \in {"split", "loop"}

\* C19: the text the artifact cleaning produces holds no page separator
\* ("--", optional whitespace, digits, whitespace, "of", whitespace, digits,
\* optional whitespace, "--"), for any raw input, also when a control
\* character sits inside a separator or when the removal of one separator
\* brings the two halves of another together.
C19_NoSeparatorLeft ==
    Normalized => \A p \in 1..Len(cleaned) : PageSeparatorEnd(cleaned, p) = 0

\* C20: after the artifact cleaning the text holds no carriage return, no
\* tab, no control character other than the newline and no run of two or more
\* spaces, for any raw input.
C20_NoControlsNoRuns ==
    Normalized =>
        \A k \in 1..Len(cleaned) :
            /\ cleaned[k] \notin {"\r", "\t"}
            /\ ~IsControl(cleaned[k])
            /\ k < Len(cleaned) => ~(cleaned[k] = " " /\ cleaned[k + 1] = " ")

\* a space, a tab, a control character and a carriage return became a space
\* and a newline
C20_Witness ==
    /\ cpc = "split"
    /\ text = <<" ", "\t", "U+0001", "\r">>
    /\ cleaned = <<" ", "\n">>

(***************************************************************************)
(* Properties of the flattening of the extractor's result.                 *)
(***************************************************************************)
\* the texts of the pages whose trimmed text is not empty, in page order
RECURSIVE NonBlankPageTexts(_)
NonBlankPageTexts(ps) ==
    IF ps = <<>> THEN <<>>
    ELSE LET t == PageText(Head(ps))
             rest == NonBlankPageTexts(Tail(ps))
         IN  IF Trim(t) = <<>> THEN rest ELSE <<t>> \o rest

\* the cleaned text of the pages of a result, and the cleaned `text` property
CleanedPages ==
    [o \in Outcomes |->
        CleanExtractedText(Join(NonBlankPageTexts(o.pages), <<"\n", "\n">>))]
CleanedTextProperty == [o \in Outcomes |-> CleanExtractedText(o.text)]

\* C21: when the extractor returns a page-structured object, the slot holds
\* cleanExtractedText of the texts of the pages whose trimmed text is not
\* empty, joined in page order with "\n\n"; this holds for every object with
\* a pages array, also for one that has a string `text` property as well.
C21_PagesFlattened ==
    \A r \in runs :
        \A k \in 1..Len(outcomes[r]) :
            (outcomes[r][k].kind = "object" /\ outcomes[r][k].hasPages)
            => /\ k <= Len(extractedTexts[r])
               /\ extractedTexts[r][k] = CleanedPages[outcomes[r][k]]

\* C21, amended: the slot of an object without a string `text` property
\* holds the cleaned text of its non-blank pages; the slot of an object with
\* a string `text` property holds the cleaned `text`, whatever its pages are.
C21_PagesUnlessText ==
    \A r \in runs :
        \A k \in 1..Len(outcomes[r]) :
            outcomes[r][k].kind = "object"
            => /\ k <= Len(extractedTexts[r])
               /\ (outcomes[r][k].hasPages /\ ~outcomes[r][k].hasText)
                     => extractedTexts[r][k] = CleanedPages[outcomes[r][k]]
               /\ outcomes[r][k].hasText
                     => extractedTexts[r][k] = CleanedTextProperty[outcomes[r][k]]

\* a returned batch whose first result has pages only (a null entry and a
\* blank page among them) and whose second result has pages and a `text`
\* property that differ
C21_Witness ==
    \E r \in runs :
        /\ opc[r] = "returned"
        /\ Len(outcomes[r]) = 2
        /\ outcomes[r][1] = Outcome("object", FALSE, <<>>, TRUE, SomePages)
        /\ outcomes[r][2] = Outcome("object", TRUE, DocJohn, TRUE, SomePages)
        /\ extractedTexts[r][1] = CleanedPages[outcomes[r][1]]
        /\ extractedTexts[r][1] # <<>>
        /\ extractedTexts[r][2] # extractedTexts[r][1]

(***************************************************************************)
(* Blank lines in the result of cleanExtractedText.                        *)
(***************************************************************************)
HasBlankLine(s) == \E k \in 1..(Len(s) - 1) : s[k] = "\n" /\ s[k + 1] = "\n"

\* the text the newline collapsing of line 109 is applied to
BeforeCollapse(s) ==
    NormalizeBullets(FixEmails(FixDashes(FixPipes(FixPunctuation(s)))))

\* C22: the string cleanExtractedText returns never holds two consecutive
\* newlines, for any input: no blank line survives, so the blank line put
\* between the pages of a result is not in the output, and the collapsing of
\* three or more newlines never changes anything.
C22_NoBlankLine ==
    /\ cpc = "done" => ~HasBlankLine(cleaned)
    /\ (cpc = "done" /\ ~IsNoText(text)) =>
           CollapseNewlines(BeforeCollapse(repairIn)) = BeforeCollapse(repairIn)

\* the joined pages of a result, with a blank line between them, came out
\* as two lines
C22_Witness ==
    /\ cpc = "done"
    /\ text = PagesJoined
    /\ HasBlankLine(text)
    /\ \E k \in 1..Len(cleaned) : cleaned[k] = "\n"
    /\ ~HasBlankLine(cleaned)

(***************************************************************************)
(* The order of the extractor calls.                                       *)
(***************************************************************************)
\* C23: extractTextFromPDFs invokes the extractor for the documents in input
\* order and one at a time: the call for a document starts only after the
\* result of the document before it (the cleaned text or the empty string)
\* has been pushed, so at every moment the result list has exactly one entry
\* for each document already processed and none for the others.
C23_OneAtATime ==
    \A r \in runs :
        IsArrayArg(r) =>
            /\ Len(extractedTexts[r]) = idx[r]
            /\ Len(outcomes[r]) = idx[r]
            /\ InFlight(r) \in {0, 1}
            /\ Len(calls[r]) <= Len(buffers[r])
            /\ \A k \in 1..Len(calls[r]) :
                  calls[r][k] = IF Absent(buffers[r][k]) THEN 0 ELSE 1
            /\ InFlight(r) = 1 => ~Absent(buffers[r][idx[r] + 1])

\* the call for the third document is in flight; the first document was
\* read and the second failed, and the result list holds these two entries
C23_Witness ==
    \E r \in runs :
        /\ buffers[r] = <<"pdf", "pdf", "pdf">>
        /\ InFlight(r) = 1
        /\ idx[r] = 2
        /\ outcomes[r][1].kind = "string"
        /\ outcomes[r][2].kind = "getTextRejects"
        /\ extractedTexts[r][1] # <<>>
        /\ extractedTexts[r][2] = <<>>
        /\ Len(extractedTexts[r]) = 2

(***************************************************************************)
(* Properties of uploadResumes.                                            *)
(***************************************************************************)
HasBuffer(f) == f = "pdf"

\* C24: for every request uploadResumes accepts, the extractedTexts of the
\* response have exactly one entry per uploaded file, and the entry of a
\* file without a buffer is the empty string; a request with no files, or
\* with no file that has a buffer, is rejected with 400 and the extractor is
\* not invoked.
C24_OneTextPerFile ==
    /\ response.status = Ok =>
          /\ Len(response.extractedTexts) = Len(files)
          /\ \A k \in 1..Len(files) :
                ~HasBuffer(files[k]) => response.extractedTexts[k] = <<>>
    /\ (IsNoUpload(files) \/ \A k \in 1..Len(files) : ~HasBuffer(files[k])) =>
          /\ response.status \in {0, BadRequest}
          /\ calls[1] = <<>>

(***************************************************************************)
(* Properties of the authentication service.                               *)
(***************************************************************************)
\* logout, changePassword or resetPassword has completed for user u in this step
Invalidated(u) ==
    \/ \E tok \in issued : tok.userId = u /\ Logout(tok)
    \/ \E tok \in issued, cur \in Passwords, new \in Passwords :
          tok.userId = u /\ ChangePassword(tok, cur, new)
    \/ /\ users[u].password_reset_token # NullColumn
       /\ \E t \in Instants, p \in Passwords : ResetPassword(t, p)

\* C25: refreshAccessToken issues an access token only when the refresh token
\* presented is the one stored for the user and the user is active and not
\* deleted; once logout, changePassword or resetPassword has completed, no
\* refresh token is stored, and every refresh token presented is answered
\* with 401 until a login or a registration stores one again.
C25_RefreshOnlyStored ==
    /\ [](/\ lastRefresh.status = Ok =>
               /\ lastRefresh.token # NullTime
               /\ lastRefresh.token = lastRefresh.stored
               /\ lastRefresh.usable
          /\ (lastRefresh.status # 0 /\ lastRefresh.stored = NullTime) =>
               lastRefresh.status = Unauthorized)
    /\ [][/\ \A u \in UserIds :
                (users' # users /\ users'[u].refresh_token # NullTime) => ~Invalidated(u)
          /\ \A u \in UserIds :
                (users[u].refresh_token = NullTime /\ users'[u].refresh_token # NullTime)
                => \E p \in Passwords : Login(u, p) \/ Register(u, p)
          /\ issued' # issued =>
                \/ \E u \in UserIds, k \in RefreshTokens :
                      RefreshRequest(u, k) /\ RefreshStatus(u, k) = Ok
                \/ \E u \in UserIds, p \in Passwords : Login(u, p) \/ Register(u, p)]_vars

\* a user logged in and changed the password; the refresh token of the login
\* was presented afterwards and answered with 401
C25_Witness ==
    /\ lastRefresh.status = Unauthorized
    /\ lastRefresh.token \in 1..MaxSeconds
    /\ lastRefresh.stored = NullTime
    /\ lastRefresh.usable
    /\ users[lastRefresh.userId].password_reset_at # NullTime
    /\ \E tok \in issued : tok.userId = lastRefresh.userId /\ tok.iat = lastRefresh.token

\* C26: forgotPassword gives the caller no way to tell whether an account
\* exists for the address: its result (success or error, and the message) is
\* the same for an unknown address, for a deleted or deactivated account and
\* for an account in use.  Checked for the requests whose mail was sent.
C26_ForgotReveals ==
    \A a, b \in forgotReplies :
        (a.mailSent /\ b.mailSent) => a.reply = b.reply

\* the calls of resetPassword that presented the token made at t and succeeded
Succeeded(t) == {c \in ResetCalls : resets[c].token = t /\ resets[c].status = Ok}

\* C27: a password reset token changes the password at most once: of the
\* calls of resetPassword that present the same token, also calls that run
\* side by side, at most one succeeds; the others are answered with 400.
C27_TokenUsedOnce ==
    /\ \A t \in Instants : Cardinality(Succeeded(t)) <= 1
    /\ \A c \in ResetCalls : resets[c].status \in {0, Ok, BadRequest}

\* C28: an access token obtained by a login that happens after a password
\* change has completed is accepted by authenticate for an existing, active,
\* non-deleted user, however soon after the change the login happens.
C28_FreshLoginAccepted ==
    [][\A u \in UserIds, p \in Passwords :
          (Login(u, p) /\ users[u].password_reset_at # NullTime)
          => AuthStatus(Bearer(GenerateAccessToken(u, now)), {})' = Ok]_vars

(***************************************************************************)
(* Properties of the job service.                                          *)
(***************************************************************************)
\* C29: updateJob and deleteJob change or remove a job only when the id of
\* the calling user equals the job's user_id: for any other caller, also a
\* SUPER_ADMIN the role check of the route has let through, the call fails
\* with 403 (404 when the job does not exist) and the jobs table is left as
\* it was.
C29_OnlyOwnerModifies ==
    lastJob.op \in {"update", "delete"} =>
        LET job == lastJob.before[lastJob.jobId]
        IN  /\ lastJob.after # lastJob.before =>
                  /\ job.exists
                  /\ job.user_id = lastJob.userId
                  /\ lastJob.status = Ok
                  /\ \A j \in JobIds \ {lastJob.jobId} :
                        lastJob.after[j] = lastJob.before[j]
            /\ ~job.exists =>
                  /\ lastJob.status = NotFound
                  /\ lastJob.after = lastJob.before
            /\ (job.exists /\ job.user_id # lastJob.userId) =>
                  /\ lastJob.status = Forbidden
                  /\ lastJob.after = lastJob.before
            /\ (job.exists /\ job.user_id = lastJob.userId) => lastJob.status = Ok

\* a SUPER_ADMIN asked for the deletion of a subscriber's job and got 403;
\* the job is still there
C29_Witness ==
    /\ lastJob.op = "delete"
    /\ CallerRole(lastJob.userId) = "SUPER_ADMIN"
    /\ lastJob.before[lastJob.jobId].exists
    /\ lastJob.status = Forbidden
    /\ lastJob.after[lastJob.jobId] = lastJob.before[lastJob.jobId]
    /\ jobs[lastJob.jobId].exists

(***************************************************************************)
(* Properties of authenticate under changes of the account.                *)
(***************************************************************************)
\* the token of header h has been signed by the server
Verifies(h) == h.kind = "bearer" /\ h.token # NoToken /\ VerifyAccessToken(h.token)
\* the row the token of h names stands for an account that may be used
AccountUsable(h) ==
    /\ users[h.token.userId].exists
    /\ ~users[h.token.userId].is_deleted
    /\ users[h.token.userId].is_active
\* line 84 refuses the token of h
IssuedBeforeReset(h) ==
    /\ users[h.token.userId].password_reset_at # NullTime
    /\ h.token.iat # 0
    /\ IssuedBefore(h.token.iat * MsPerSecond, users[h.token.userId].password_reset_at)

\* C30: authenticate(...roles) passes a request on only if its bearer token
\* verifies, the user it names exists in the database, is not deleted and is
\* active and, when roles are given, the role the database holds now (not
\* the role in the token) is one of them.  A request with a verified token
\* of a removed, deleted or deactivated user is answered 401 and one of a
\* user whose present role is not asked for 403, whenever the token was
\* issued.
C30_DatabaseDecides ==
    [][\A h \in Headers, roles \in RoleSets :
          Authenticate(h, roles) =>
              /\ lastAuth'.status = Ok =>
                    /\ Verifies(h)
                    /\ AccountUsable(h)
                    /\ (roles # {} => users[h.token.userId].role \in roles)
              /\ (Verifies(h) /\ ~AccountUsable(h)) => lastAuth'.status = Unauthorized
              /\ (/\ Verifies(h)
                  /\ AccountUsable(h)
                  /\ ~IssuedBeforeReset(h)
                  /\ roles # {}
                  /\ users[h.token.userId].role \notin roles) =>
                    lastAuth'.status = Forbidden
              /\ (/\ Verifies(h)
                  /\ AccountUsable(h)
                  /\ ~IssuedBeforeReset(h)
                  /\ (roles # {} => users[h.token.userId].role \in roles)) =>
                    lastAuth'.status = Ok]_vars

\* a token that was signed while the user was SUPER_ADMIN is refused with
\* 403 on a route for SUPER_ADMIN after the role has been taken away
C30_Witness ==
    /\ lastAuth.status = Forbidden
    /\ lastAuth.header.token \in issued
    /\ lastAuth.header.token.role = "SUPER_ADMIN"
    /\ users[lastAuth.header.token.userId].role = "USER"

\* a token that was issued earlier is refused with 401 after the account has
\* been deactivated
C30_WitnessDeactivated ==
    /\ lastAuth.status = Unauthorized
    /\ lastAuth.header.token \in issued
    /\ users[lastAuth.header.token.userId].exists
    /\ ~users[lastAuth.header.token.userId].is_active

====
